---- MODULE Spec2Model ----
(***************************************************************************)
(* A model of the egod_search crawl -> index -> retrieve pipeline.         *)
(*                                                                         *)
(* The module holds several specifications over one set of variables; a    *)
(* specification leaves the variables of the other components at their     *)
(* initial values.                                                         *)
(*   SpecCrawler : the crawler core (crawl/__init__.py): enqueue,          *)
(*                 enqueue_many, dequeue.                                  *)
(*   SpecStore   : the index store (database/models.py): Page.index.       *)
(*   SpecSup     : the concurrent crawler (crawl/concurrency.py) on the    *)
(*                 asyncio event loop, with its consumer.                  *)
(*   SpecMain    : the crawl of the main program (crawl/main.py): its      *)
(*                 crawl, crawl_to_index_bridge and index tasks.           *)
(***************************************************************************)
EXTENDS Integers, Sequences, FiniteSets, TLC

(***************************************************************************)
(* Bounds of the model.                                                    *)
(***************************************************************************)
\* URLs with a supported scheme are 1..NumURLs; URL 0 has an unsupported one.
NumURLs == 2
\* Longest batch handed to enqueue_many.
MaxBatch == 2
\* The store: pages are indexed with modification times 1..MaxModTime.
MaxModTime == 2
\* Page.index calls in one behaviour.
MaxCalls == 3
\* Worker tasks of a concurrent crawl: 1..MaxWorkers.
MaxWorkers == 2
\* Capacities of the result queue: 0 (unbounded) and 1..MaxQueueSize.
MaxQueueSize == 1
\* Pages of a crawled site.
NumPages == 3
\* index tasks of the main program: 1..MaxIndexers.
MaxIndexers == 2
\* --page-count of the main program: 1..MaxPageCount.
MaxPageCount == 2

(***************************************************************************)
(* Sequences.                                                              *)
(***************************************************************************)
Range(s) == {s[i] : i \in 1..Len(s)}

NoDup(s) == \A i, j \in 1..Len(s) : s[i] = s[j] => i = j

IsPrefix(s, t) == Len(s) <= Len(t) /\ SubSeq(t, 1, Len(s)) = s

SeqsUpTo(S, n) == UNION {[1..k -> S] : k \in 0..n}

\* The index of the first occurrence of x in s (x occurs in s).
FirstIndex(s, x) == CHOOSE i \in 1..Len(s) : s[i] = x /\ \A j \in 1..(i-1) : s[j] # x

(***************************************************************************)
(* URLs (yarl.URL values).  Only the scheme matters to the crawler.        *)
(***************************************************************************)
BadURL == 0
GoodURLs == 1..NumURLs
AllURLs == GoodURLs \cup {BadURL}

scheme(u) == IF u = BadURL THEN "ftp" ELSE IF u % 2 = 0 THEN "https" ELSE "http"

SUPPORTED_SCHEMES == {"http", "https"}

VARIABLES
  queue,      \* Crawler._queue: the keys of an insertion-ordered dict
  visited,    \* Crawler._visited
  dequeued,   \* history: the URLs returned by dequeue, in order
  last,       \* history: the last operation called and how it ended
  db,         \* the index store (Tortoise models): the committed rows
  calls,      \* history: the number of Page.index calls made
  sup,        \* the ConcurrentCrawler, its Crawler, its tasks and the event loop
  mn,         \* main(): its crawler, queues, counters, tasks and the event loop
  am          \* a_eager_map / a_pool_imap: the generator, its tasks and the event loop

crawlerVars == <<queue, visited, dequeued>>

storeVars == <<db, calls>>

supVars == <<sup>>

mainVars == <<mn>>

mapVars == <<am>>

vars == <<queue, visited, dequeued, last, db, calls, sup, mn, am>>

(***************************************************************************)
(* dict.update((url, ...) for url in urls): a key already in the dict      *)
(* keeps its position, a new key is appended.                              *)
(***************************************************************************)
RECURSIVE DictUpdate(_, _)
DictUpdate(q, urls) ==
  IF urls = <<>> THEN q
  ELSE DictUpdate(IF Head(urls) \in Range(q) THEN q ELSE Append(q, Head(urls)),
                  Tail(urls))

\* filter of a sequence, keeping order
RECURSIVE SelectNotIn(_, _)
SelectNotIn(urls, S) ==
  IF urls = <<>> THEN <<>>
  ELSE IF Head(urls) \in S THEN SelectNotIn(Tail(urls), S)
       ELSE <<Head(urls)>> \o SelectNotIn(Tail(urls), S)

NoOp == [op |-> "none", urls |-> <<>>, ignore |-> FALSE, exc |-> "none", names |-> {}]

\* no ConcurrentCrawler was made
NoSup == <<>>

\* main() is not running
NoMain == <<>>

\* the am variable when the specification is not about the async map helpers
NoMap == <<>>

\* The store after the schemas are generated: every table is empty.
EmptyDB == [urls |-> <<>>, pages |-> <<>>, words |-> <<>>, wp |-> <<>>, wpt |-> <<>>, pw |-> {}]

(***************************************************************************)
(* Crawler.enqueue_many(urls, ignore_visited): the outcome as a record     *)
(* [exc, names, queue].  _visited is never changed by it.                  *)
(***************************************************************************)
enqueue_many_mut_noraise(q, v, urls, ignore) ==
  LET dup == v \cap Range(urls)
  IN  [exc |-> "none", names |-> {}, queue |-> DictUpdate(q, SelectNotIn(urls, dup))]

enqueue_many_mut_partial(q, v, urls, ignore) ==
  \* the scheme check made URL by URL while inserting
  LET RECURSIVE Ins(_, _)
      Ins(qq, us) ==
        IF us = <<>> THEN [exc |-> "none", names |-> {}, queue |-> qq]
        ELSE IF scheme(Head(us)) \notin SUPPORTED_SCHEMES
             THEN [exc |-> "ValueError", names |-> {Head(us)}, queue |-> qq]
             ELSE Ins(IF Head(us) \in Range(qq) \cup v THEN qq ELSE Append(qq, Head(us)),
                      Tail(us))
  IN  Ins(q, urls)

enqueue_many_mut_revisit(q, v, urls, ignore) ==
  \* the visited URLs are not filtered out under ignore_visited
  LET unsupported == {u \in Range(urls) : scheme(u) \notin SUPPORTED_SCHEMES}
      dup == v \cap Range(urls)
  IN  IF unsupported # {}
      THEN [exc |-> "ValueError", names |-> unsupported, queue |-> q]
      ELSE IF dup # {} /\ ~ignore
      THEN [exc |-> "URLAlreadyVisited", names |-> dup, queue |-> q]
      ELSE [exc |-> "none", names |-> {}, queue |-> DictUpdate(q, urls)]

enqueue_many(q, v, urls, ignore) ==
  LET unsupported == {u \in Range(urls) : scheme(u) \notin SUPPORTED_SCHEMES}
      dup == v \cap Range(urls)
  IN  IF unsupported # {}
      THEN [exc |-> "ValueError", names |-> unsupported, queue |-> q]
      ELSE IF dup # {} /\ ~ignore
      THEN [exc |-> "URLAlreadyVisited", names |-> dup, queue |-> q]
      ELSE [exc |-> "none", names |-> {},
            queue |-> DictUpdate(q, SelectNotIn(urls, dup))]

(***************************************************************************)
(* Crawler.enqueue(url, ignore_visited).                                   *)
(***************************************************************************)
enqueue(q, v, url, ignore) ==
  IF scheme(url) \notin SUPPORTED_SCHEMES
  THEN [exc |-> "ValueError", names |-> {url}, queue |-> q]
  ELSE IF url \in v
  THEN IF ignore THEN [exc |-> "none", names |-> {}, queue |-> q]
       ELSE [exc |-> "URLAlreadyVisited", names |-> {url}, queue |-> q]
  ELSE [exc |-> "none", names |-> {}, queue |-> DictUpdate(q, <<url>>)]

(***************************************************************************)
(* Crawler.dequeue(): pops the first key and marks it visited; QueueEmpty  *)
(* when there is none.                                                     *)
(***************************************************************************)
dequeue(q, v) ==
  IF q = <<>> THEN [exc |-> "QueueEmpty", url |-> BadURL, queue |-> q, visited |-> v]
  ELSE [exc |-> "none", url |-> Head(q), queue |-> Tail(q), visited |-> v \cup {Head(q)}]

(***************************************************************************)
(* SpecCrawler: any sequence of enqueue, enqueue_many and dequeue calls.   *)
(***************************************************************************)
InitCrawlerVars ==
  /\ queue = <<>>
  /\ visited = {}
  /\ dequeued = <<>>

InitCrawler ==
  /\ InitCrawlerVars
  /\ last = NoOp
  /\ db = EmptyDB
  /\ calls = 0
  /\ sup = NoSup
  /\ mn = NoMain
  /\ am = NoMap

Enqueue(u, ignore) ==
  LET r == enqueue(queue, visited, u, ignore)
  IN  /\ queue' = r.queue
      /\ last' = [op |-> "enqueue", urls |-> <<u>>, ignore |-> ignore,
                  exc |-> r.exc, names |-> r.names]
      /\ UNCHANGED <<visited, dequeued>>

EnqueueMany(urls, ignore) ==
  LET r == enqueue_many(queue, visited, urls, ignore)
  IN  /\ queue' = r.queue
      /\ last' = [op |-> "enqueue_many", urls |-> urls, ignore |-> ignore,
                  exc |-> r.exc, names |-> r.names]
      /\ UNCHANGED <<visited, dequeued>>

Dequeue ==
  LET r == dequeue(queue, visited)
  IN  /\ queue' = r.queue
      /\ visited' = r.visited
      /\ dequeued' = IF r.exc = "none" THEN Append(dequeued, r.url) ELSE dequeued
      /\ last' = [op |-> "dequeue", urls |-> <<>>, ignore |-> FALSE,
                  exc |-> r.exc, names |-> {}]

NextCrawler ==
  /\ \/ \E u \in AllURLs, ignore \in BOOLEAN : Enqueue(u, ignore)
     \/ \E urls \in SeqsUpTo(AllURLs, MaxBatch), ignore \in BOOLEAN : EnqueueMany(urls, ignore)
     \/ Dequeue
  /\ UNCHANGED <<storeVars, supVars, mainVars, mapVars>>

SpecCrawler == InitCrawler /\ [][NextCrawler]_vars

(***************************************************************************)
(* Claims about the crawler core.                                          *)
(***************************************************************************)
IsEnqueueOp(l) == l.op \in {"enqueue", "enqueue_many"}

HasBadScheme(urls) == \E i \in 1..Len(urls) : scheme(urls[i]) \notin SUPPORTED_SCHEMES

\* q2 is q followed by the URLs of urls that are neither in v nor in q, each
\* once, in the order of their first occurrence in urls.
AppendedInInputOrder(q, q2, urls, v) ==
  /\ IsPrefix(q, q2)
  /\ LET suf == SubSeq(q2, Len(q) + 1, Len(q2))
     IN  /\ NoDup(suf)
         /\ Range(suf) = Range(urls) \ (v \cup Range(q))
         /\ \A i, j \in 1..Len(suf) :
              i < j => FirstIndex(urls, suf[i]) < FirstIndex(urls, suf[j])

\* C7: without reset, no URL is returned by dequeue twice: the dequeue history
\* and the pending queue hold no URL twice, no pending URL is a dequeued one,
\* and every step keeps the pending URLs in place (the queue only grows at its
\* tail or loses its head).
C7_DequeuedAtMostOnce ==
  [][ /\ NoDup(dequeued')
      /\ NoDup(queue')
      /\ Range(queue') \cap visited' = {}
      /\ Range(dequeued') = visited'
      /\ (IsPrefix(queue, queue') \/ (queue # <<>> /\ queue' = Tail(queue))) ]_vars

\* C7 witness: a URL was dequeued, and a batch holding a dequeued URL and a
\* pending one was then enqueued with ignore_visited.
C7_Witness ==
  /\ Len(dequeued) >= 1
  /\ last.op = "enqueue_many" /\ last.ignore /\ last.exc = "none"
  /\ Range(last.urls) \cap visited # {}
  /\ Range(last.urls) \cap Range(queue) # {}

\* C8: an enqueue whose batch holds a URL of an unsupported scheme raises
\* ValueError and leaves the pending queue and the visited set as they were.
C8_EnqueueAtomicOnSchemeError ==
  [][ (IsEnqueueOp(last') /\ HasBadScheme(last'.urls))
        => (last'.exc = "ValueError" /\ queue' = queue /\ visited' = visited) ]_vars

\* C8 witness: a batch with an unsupported URL after a supported URL that was
\* neither pending nor visited has been refused.
C8_Witness ==
  /\ last.op = "enqueue_many" /\ last.exc = "ValueError"
  /\ Len(last.urls) >= 2
  /\ scheme(last.urls[1]) \in SUPPORTED_SCHEMES
  /\ last.urls[1] \notin visited \cup Range(queue)

\* C9 as claimed: without ignore_visited an enqueue raises, naming the
\* duplicates and enqueuing nothing, whenever a URL of the batch is pending or
\* was dequeued; with it the duplicates are skipped and the rest appended.
C9_Original ==
  [][ (IsEnqueueOp(last') /\ ~HasBadScheme(last'.urls))
        => LET dups == Range(last'.urls) \cap (visited \cup Range(queue))
           IN  IF ~last'.ignore /\ dups # {}
               THEN last'.exc = "URLAlreadyVisited" /\ last'.names = dups /\ queue' = queue
               ELSE /\ last'.exc = "none"
                    /\ AppendedInInputOrder(queue, queue', last'.urls, visited) ]_vars

\* C9 amended: the enqueue raises exactly when a URL of the batch was already
\* dequeued (is visited), naming those URLs and enqueuing nothing; a URL that is
\* still pending never raises and keeps its place; when nothing is raised the
\* URLs neither visited nor pending are appended at the tail in input order.
C9_EnqueueDuplicates ==
  [][ (IsEnqueueOp(last') /\ ~HasBadScheme(last'.urls))
        => LET dups == Range(last'.urls) \cap visited
           IN  /\ visited' = visited
               /\ IF ~last'.ignore /\ dups # {}
                  THEN last'.exc = "URLAlreadyVisited" /\ last'.names = dups /\ queue' = queue
                  ELSE /\ last'.exc = "none"
                       /\ AppendedInInputOrder(queue, queue', last'.urls, visited) ]_vars

\* C9 witness: a batch of a dequeued URL and a fresh one was refused, and the
\* fresh one is not in the queue.
C9_Witness ==
  /\ last.op = "enqueue_many" /\ ~last.ignore /\ last.exc = "URLAlreadyVisited"
  /\ last.names # Range(last.urls)
  /\ Range(last.urls) \ last.names # {}
  /\ (Range(last.urls) \ last.names) \cap Range(queue) = {}

(***************************************************************************)
(* The index store (database/models.py).                                   *)
(*                                                                         *)
(* db.urls  : the URL rows in id order, [content, page]; page is the id of *)
(*            the URL's Page, 0 for none.                                  *)
(* db.pages : the Page rows in id order, [mod_time, text, size, outlinks]; *)
(*            outlinks is the set of URL ids of the many-to-many relation. *)
(* db.words : the Word contents in id order.                               *)
(* db.wp, db.wpt : the WordPositions / WordPositionsTitle rows in id       *)
(*            order, [positions, frequency, tf]; tf is the fraction        *)
(*            [num, den].                                                  *)
(* db.pw    : the PageWord rows [page, word, positions, positions_title].  *)
(*                                                                         *)
(* An IndexedPage is [url, mod_time, text, size, links, wo, wot]; wo and   *)
(* wot are the word_occurrences mappings as sequences of [w, pos] in the   *)
(* mapping's insertion order.                                              *)
(***************************************************************************)
RECURSIVE Dedup(_)
Dedup(s) ==
  IF s = <<>> THEN <<>>
  ELSE <<Head(s)>> \o Dedup(SelectNotIn(Tail(s), {Head(s)}))

Keys(m) == [i \in 1..Len(m) |-> m[i].w]

\* mapping.get(w, ()): the positions of w, none when w is no key
Get(m, w) ==
  IF \E i \in 1..Len(m) : m[i].w = w
  THEN m[CHOOSE i \in 1..Len(m) : m[i].w = w].pos
  ELSE <<>>

\* the elements of a finite set of integers in ascending order
RECURSIVE Ascending(_)
Ascending(S) ==
  IF S = {} THEN <<>>
  ELSE LET m == CHOOSE x \in S : \A y \in S : x <= y
       IN  <<m>> \o Ascending(S \ {m})

MaxOf(S) == CHOOSE x \in S : \A y \in S : y <= x

\* URL.bulk_create(..., ignore_conflicts=True): a content already stored is
\* skipped, a new one gets the next id and no page.
RECURSIVE URLBulkCreate(_, _)
URLBulkCreate(rows, contents) ==
  IF contents = <<>> THEN rows
  ELSE URLBulkCreate(
         IF \E i \in 1..Len(rows) : rows[i].content = Head(contents)
         THEN rows
         ELSE Append(rows, [content |-> Head(contents), page |-> 0]),
         Tail(contents))

URLId(rows, c) == CHOOSE i \in 1..Len(rows) : rows[i].content = c

\* Word.bulk_create(..., ignore_conflicts=True)
WordBulkCreate(words, contents) == DictUpdate(words, contents)

\* The rows of one stream for the words of word_map (ids in wids): positions
\* and frequency from the stream's mapping, tf preset to tf0 and replaced by
\* frequency / max frequency when the largest frequency is not 0.
PositionRows(words, wids, m, tf0) ==
  LET freq(i) == Len(Get(m, words[wids[i]]))
      fmax == IF wids = <<>> THEN 0 ELSE MaxOf({freq(i) : i \in 1..Len(wids)})
  IN  [i \in 1..Len(wids) |->
         [positions |-> Get(m, words[wids[i]]),
          frequency |-> freq(i),
          tf |-> IF fmax # 0 THEN [num |-> freq(i), den |-> fmax] ELSE tf0]]

\* Word.content = CharField(255)
WordContentMax == 255

\* the number of characters of a word of the model
WordLen(w) == IF w = "long" THEN WordContentMax + 1 ELSE 1

\* tf of a row built without one and never assigned: the field has no default
TfNone == [num |-> 0, den |-> 0]

TfZero == [num |-> 0, den |-> 1]

(***************************************************************************)
(* Page.index(models, page) under @atomic(): the transaction is committed  *)
(* when the method returns (True or False) and rolled back when it raises. *)
(* The outcome is [ret, db]: ret is "true", "false" or "error".            *)
(***************************************************************************)
\* The body of Page.index: the outcome [ret, db] where, for "error", db is the
\* store as the statements run before the exception left it.
Page_index(db0, page) ==
  LET urlsArg == <<page.url>> \o Dedup(page.links)
      urls1 == URLBulkCreate(db0.urls, urlsArg)
      uid == URLId(urls1, page.url)
      \* url_map after the page's own URL is popped
      linkIds == {URLId(urls1, c) : c \in Range(urlsArg) \ {page.url}}
      old == urls1[uid].page
  IN  IF old # 0 /\ db0.pages[old].mod_time >= page.mod_time
      THEN [ret |-> "false", db |-> [db0 EXCEPT !.urls = urls1]]
      ELSE IF page.size < 0
      THEN \* new_page.save(): MinValueValidator(0) on size
           [ret |-> "error", db |-> [db0 EXCEPT !.urls = urls1]]
      ELSE
        LET pid == IF old = 0 THEN Len(db0.pages) + 1 ELSE old
            row == [mod_time |-> page.mod_time, text |-> page.text, size |-> page.size,
                    outlinks |-> (IF old = 0 THEN {} ELSE db0.pages[old].outlinks)
                                   \cup linkIds]
            pages2 == IF old = 0 THEN Append(db0.pages, row)
                      ELSE [db0.pages EXCEPT ![old] = row]
            urls2 == [urls1 EXCEPT ![uid].page = pid]
            pw2 == {r \in db0.pw : r.page # pid}
            wordsArg == Keys(page.wo) \o Keys(page.wot)
            words2 == WordBulkCreate(db0.words, wordsArg)
            \* word_map, in id order
            wids == Ascending({FirstIndex(words2, w) : w \in Range(wordsArg)})
            wpNew == PositionRows(words2, wids, page.wo, TfZero)
            wptNew == PositionRows(words2, wids, page.wot, TfNone)
            pwNew == {[page |-> pid, word |-> wids[i],
                       positions |-> Len(db0.wp) + i,
                       positions_title |-> Len(db0.wpt) + i] : i \in 1..Len(wids)}
        IN  IF \E w \in Range(wordsArg) : WordLen(w) > WordContentMax
            THEN \* Word.bulk_create: content = CharField(255)
                 [ret |-> "error",
                  db |-> [db0 EXCEPT !.urls = urls2, !.pages = pages2, !.pw = pw2]]
            ELSE IF \E i \in 1..Len(wptNew) : wptNew[i].tf = TfNone
            THEN \* WordPositionsTitle.bulk_create: tf is required
                 [ret |-> "error",
                  db |-> [urls |-> urls2, pages |-> pages2, words |-> words2,
                          wp |-> db0.wp \o wpNew, wpt |-> db0.wpt, pw |-> pw2]]
            ELSE [ret |-> "true",
                  db |-> [urls |-> urls2, pages |-> pages2, words |-> words2,
                          wp |-> db0.wp \o wpNew, wpt |-> db0.wpt \o wptNew,
                          pw |-> pw2 \cup pwNew]]

\* @atomic() without the rollback
atomic_mut_norollback(db0, r) == r

\* @atomic(): the transaction is rolled back when the body raises and
\* committed when it returns
atomic(db0, r) == IF r.ret = "error" THEN [ret |-> "error", db |-> db0] ELSE r

\* Page.index with the guard comparing with > : an equal mod_time is indexed again
index_mut_nonstrict(db0, page) ==
  LET urlsArg == <<page.url>> \o Dedup(page.links)
      urls1 == URLBulkCreate(db0.urls, urlsArg)
      uid == URLId(urls1, page.url)
      old == urls1[uid].page
  IN  IF old # 0 /\ db0.pages[old].mod_time > page.mod_time
      THEN [ret |-> "false", db |-> db0]
      ELSE [ret |-> "true",
            db |-> [db0 EXCEPT !.urls = [urls1 EXCEPT ![uid].page =
                                           IF old = 0 THEN Len(db0.pages) + 1 ELSE old],
                               !.pages = IF old = 0
                                         THEN Append(db0.pages,
                                                [mod_time |-> page.mod_time, text |-> page.text,
                                                 size |-> page.size, outlinks |-> {}])
                                         ELSE [db0.pages EXCEPT ![old].text = page.text]]]

index(db0, page) == atomic(db0, Page_index(db0, page))

\* a page that Page.index has no reason other than an empty stream to refuse
Storable(page) ==
  /\ page.size >= 0
  /\ \A w \in Range(Keys(page.wo) \o Keys(page.wot)) : WordLen(w) <= WordContentMax

(***************************************************************************)
(* SpecStore: any sequence of Page.index calls on small pages.             *)
(***************************************************************************)
StoreURLs == {1, 2}

\* a URL that never has a page of its own
OtherURL == 3

\* The pages handed to Page.index: what the indexer made of a response.
\*   plain    : no link, no word
\*   full     : a link to a URL without a page; words in both streams
\*   titled   : links to itself (twice) and to another URL; title words only
\*   untitled : plaintext words and an empty title
\*   negative : a negative size
\*   longword : a word of more than 255 characters
Contents(u) ==
  { [text |-> "plain", size |-> 7, links |-> <<>>, wo |-> <<>>, wot |-> <<>>],
    [text |-> "full", size |-> 7, links |-> <<OtherURL>>,
     wo |-> <<[w |-> "b", pos |-> <<0, 4>>], [w |-> "a", pos |-> <<2>>]>>,
     wot |-> <<[w |-> "b", pos |-> <<0>>]>>],
    [text |-> "titled", size |-> 0, links |-> <<u, 3 - u, u>>,
     wo |-> <<>>, wot |-> <<[w |-> "c", pos |-> <<0>>]>>],
    [text |-> "untitled", size |-> 7, links |-> <<3 - u>>,
     wo |-> <<[w |-> "a", pos |-> <<0>>]>>, wot |-> <<>>],
    [text |-> "negative", size |-> 0 - 1, links |-> <<OtherURL>>,
     wo |-> <<>>, wot |-> <<>>],
    [text |-> "longword", size |-> 7, links |-> <<>>,
     wo |-> <<[w |-> "long", pos |-> <<0>>]>>,
     wot |-> <<[w |-> "long", pos |-> <<0>>]>>] }

StorePages ==
  {[url |-> u, mod_time |-> t, text |-> c.text, size |-> c.size,
    links |-> c.links, wo |-> c.wo, wot |-> c.wot] :
     <<u, t, c>> \in {x \in StoreURLs \X (1..MaxModTime) \X UNION {Contents(v) : v \in StoreURLs} :
                        x[3] \in Contents(x[1])}}

InitStore ==
  /\ InitCrawlerVars
  /\ last = NoOp
  /\ db = EmptyDB
  /\ calls = 0
  /\ sup = NoSup
  /\ mn = NoMain
  /\ am = NoMap

IndexPage(page) ==
  LET r == index(db, page)
  IN  /\ calls < MaxCalls
      /\ calls' = calls + 1
      /\ db' = r.db
      /\ last' = [op |-> "index", page |-> page, ret |-> r.ret]

NextStore ==
  /\ \E page \in StorePages : IndexPage(page)
  /\ UNCHANGED <<crawlerVars, supVars, mainVars, mapVars>>

SpecStore == InitStore /\ [][NextStore]_vars

(***************************************************************************)
(* Claims about the index store.                                           *)
(***************************************************************************)
\* the store d holds a Page for page.url that is at least as new as page
Stale(d, page) ==
  \E i \in 1..Len(d.urls) :
    /\ d.urls[i].content = page.url
    /\ d.urls[i].page # 0
    /\ d.pages[d.urls[i].page].mod_time >= page.mod_time

IsIndexCall == last'.op = "index" /\ calls' = calls + 1

\* C10: a stale re-index (the stored Page is at least as new as the incoming
\* one) returns false and leaves every table of the store, the URL table
\* included, as it was before the call.
C10_StaleReindexChangesNothing ==
  [][ (IsIndexCall /\ Stale(db, last'.page))
        => (last'.ret = "false" /\ db' = db) ]_vars

\* What the code does keep on a stale re-index: it returns false, every table
\* but the URL table is unchanged, and the URL table only grows at its end.
StaleReindexKeepsAllButURLs ==
  [][ (IsIndexCall /\ Stale(db, last'.page))
        => /\ last'.ret = "false"
           /\ [db' EXCEPT !.urls = db.urls] = db
           /\ IsPrefix(db.urls, db'.urls) ]_vars

\* a stale re-index listing a link never seen before has been made
StaleReindexWithNewLink ==
  /\ last.op = "index" /\ last.ret = "false"
  /\ \E i \in 1..Len(db.urls) :
       /\ db.urls[i].content \in Range(last.page.links)
       /\ db.urls[i].page = 0
       /\ \A j \in 1..Len(db.pages) : i \notin db.pages[j].outlinks

\* the id of the Page stored for URL content c in store d, 0 for none
PageOf(d, c) ==
  IF \E i \in 1..Len(d.urls) : d.urls[i].content = c
  THEN d.urls[URLId(d.urls, c)].page
  ELSE 0

\* C11: there is at most one Page per URL (no URL content is stored twice,
\* every Page belongs to exactly one URL); a URL keeps the id of its Page; the
\* row of a Page changes only by an accepted index call for its URL whose
\* mod_time is strictly greater than the stored one, so the stored mod_time
\* never decreases.
C11_OnePagePerURLModTimeGrows ==
  [][ /\ NoDup([i \in 1..Len(db'.urls) |-> db'.urls[i].content])
      /\ \A p \in 1..Len(db'.pages) :
           Cardinality({i \in 1..Len(db'.urls) : db'.urls[i].page = p}) = 1
      /\ \A i \in 1..Len(db.urls) :
           LET p == db.urls[i].page
           IN  p # 0 =>
                 /\ db'.urls[i] = db.urls[i]
                 /\ db'.pages[p].mod_time >= db.pages[p].mod_time
                 /\ db'.pages[p] # db.pages[p] =>
                      /\ IsIndexCall /\ last'.ret = "true"
                      /\ last'.page.url = db.urls[i].content
                      /\ last'.page.mod_time > db.pages[p].mod_time
                      /\ db'.pages[p].mod_time = last'.page.mod_time ]_vars

\* C11 witness: two Pages are stored and the last call was accepted for the
\* URL of the older one, which it therefore updated in place.
C11_Witness ==
  /\ last.op = "index" /\ last.ret = "true"
  /\ Len(db.pages) = 2
  /\ PageOf(db, last.page.url) = 1
  /\ db.pages[1].mod_time = last.page.mod_time

\* C12: an index call that raises part-way leaves every table of the store
\* as it was before the call.
C12_FailedIndexChangesNothing ==
  [][ (IsIndexCall /\ last'.ret = "error") => db' = db ]_vars

\* C12 witness: the last call raised after statements of its body had
\* written rows of several tables (the store is what it was before the call).
C12_Witness ==
  /\ last.op = "index" /\ last.ret = "error"
  /\ Page_index(db, last.page).ret = "error"
  /\ Len(Page_index(db, last.page).db.pages) > Len(db.pages)
  /\ Len(Page_index(db, last.page).db.urls) > Len(db.urls)
  /\ Len(Page_index(db, last.page).db.wp) > Len(db.wp)

StrictlyAscending(seq) == \A i, j \in 1..Len(seq) : i < j => seq[i] < seq[j]

\* a position row that is well-formed on its own
WellFormedRow(row) ==
  /\ row.positions # <<>>
  /\ StrictlyAscending(row.positions)
  /\ row.frequency = Len(row.positions)
  /\ row.frequency >= 1
  /\ row.tf.den > 0 /\ 0 <= row.tf.num /\ row.tf.num <= row.tf.den

\* C13: every stored WordPositions and WordPositionsTitle row has a non-empty
\* strictly ascending positions list, a frequency equal to its length, a tf
\* in [0,1], and the tf of the row of a PageWord is its frequency divided by
\* the largest frequency of that stream on that page.
C13_PositionRowsWellFormed ==
  /\ \A i \in 1..Len(db.wp) : WellFormedRow(db.wp[i])
  /\ \A i \in 1..Len(db.wpt) : WellFormedRow(db.wpt[i])
  /\ \A r \in db.pw :
       LET fmax == MaxOf({db.wp[q.positions].frequency : q \in {x \in db.pw : x.page = r.page}})
           fmaxt == MaxOf({db.wpt[q.positions_title].frequency : q \in {x \in db.pw : x.page = r.page}})
       IN  /\ db.wp[r.positions].tf.num * fmax
                = db.wp[r.positions].frequency * db.wp[r.positions].tf.den
           /\ db.wpt[r.positions_title].tf.num * fmaxt
                = db.wpt[r.positions_title].frequency * db.wpt[r.positions_title].tf.den

\* C18: empty inputs are not failures: Page.index of a page whose plaintext
\* stream or title stream has no words does not raise (it stores the page or,
\* for a stale page, returns false).
C18_EmptyInputsAreNotFailures ==
  (/\ last.op = "index"
   /\ (last.page.wo = <<>> \/ last.page.wot = <<>>)
   /\ Storable(last.page))
    => last.ret # "error"

\* C31: after an accepted index call the outlinks of the stored Page are
\* exactly the URLs of the links of the incoming page: the links of the
\* earlier version that the new one lacks are gone, and every incoming
\* link, one to the page's own URL included, is there.
C31_OutlinksReplaced ==
  [][ (IsIndexCall /\ last'.ret = "true")
        => db'.pages[PageOf(db', last'.page.url)].outlinks
             = {URLId(db'.urls, c) : c \in Range(last'.page.links)} ]_vars

\* the word_occurrences mappings of the stored Page with this text
ContentOf(text) == CHOOSE c \in Contents(1) : c.text = text

StoredStems(text) ==
  Range(Keys(ContentOf(text).wo)) \cup Range(Keys(ContentOf(text).wot))

\* C32: for every Page the PageWord rows are exactly the stems of its
\* current plaintext and title, and every WordPositions and
\* WordPositionsTitle row is the row of exactly one PageWord: nothing stale
\* or orphaned is left by a re-index.
C32_PageWordsAndPositionsExact ==
  /\ \A p \in 1..Len(db.pages) :
       {db.words[r.word] : r \in {x \in db.pw : x.page = p}}
         = StoredStems(db.pages[p].text)
  /\ \A i \in 1..Len(db.wp) :
       Cardinality({r \in db.pw : r.positions = i}) = 1
  /\ \A i \in 1..Len(db.wpt) :
       Cardinality({r \in db.pw : r.positions_title = i}) = 1

\* idf_raw_many for one word: the number of rows of the stream's table whose
\* PageWord (key) is of word w; type is "plaintext" or "title"
idf_raw_many(d, w, type) ==
  Cardinality({IF type = "title" THEN r.positions_title ELSE r.positions :
                 r \in {x \in d.pw : x.word = w}})

\* idf_many for one word: log2 of the fraction [num, den]; without a page it
\* is 0, and a raw count of 0 is replaced by the number of pages
idf_many(d, w, type) ==
  LET num == Len(d.pages)
      raw == idf_raw_many(d, w, type)
  IN  IF num <= 0 THEN [num |-> 1, den |-> 1]
      ELSE [num |-> num, den |-> IF raw <= 0 THEN num ELSE raw]

\* the Pages in which the word occurs at least once in the stream
PagesWith(d, w, type) ==
  {q \in 1..Len(d.pages) :
     d.words[w] \in Range(Keys(IF type = "title"
                                THEN ContentOf(d.pages[q].text).wot
                                ELSE ContentOf(d.pages[q].text).wo))}

\* C35: the document frequency of a stem in a stream is the number of pages
\* in which the stem occurs at least once in that stream (a page with the
\* stem only in its title does not count for the plaintext, nor the other
\* way round), and a stem with df = 0 in a stream has idf = 0 there.
C35_DfPerStream ==
  \A w \in 1..Len(db.words) : \A type \in {"plaintext", "title"} :
    /\ idf_raw_many(db, w, type) = Cardinality(PagesWith(db, w, type))
    /\ PagesWith(db, w, type) = {} =>
         idf_many(db, w, type).num = idf_many(db, w, type).den

\* what the count is: the pages with the stem in either stream
DfCountsEitherStream ==
  \A w \in 1..Len(db.words) : \A type \in {"plaintext", "title"} :
    /\ idf_raw_many(db, w, type)
         = Cardinality(PagesWith(db, w, "plaintext") \cup PagesWith(db, w, "title"))
    /\ idf_raw_many(db, w, type) = 0 =>
         idf_many(db, w, type).num = idf_many(db, w, type).den

(***************************************************************************)
(* The concurrent crawler (crawl/concurrency.py) on the asyncio event      *)
(* loop.  Tasks are scheduled cooperatively: the loop keeps a FIFO of      *)
(* ready tasks, runs the first one until it suspends, and a task that a    *)
(* future, an event or a queue wakes up is appended to the FIFO.  Task 0   *)
(* is the consumer (the task iterating pipe()); tasks 1..n run run().      *)
(***************************************************************************)
Consumer == 0

Pages == 1..NumPages

Wrap(u) == ((u - 1) % NumPages) + 1

SelectIn(urls, S) == SelectNotIn(urls, Range(urls) \ S)

\* The sites crawled: the start URLs given to the crawler, the links of each
\* page, what fetching it gives ("ok": an HTML page; "none": a response
\* that is not OK or not HTML; "err": the fetch raises CrawlError), and the
\* URL the response comes from after the redirects (final).
Worlds == <<
  [start |-> <<1>>,
   links |-> [u \in Pages |-> SelectIn(<<u + 1, u + 2>>, Pages)],
   kind  |-> [u \in Pages |-> "ok"],
   final |-> [u \in Pages |-> u]],
  [start |-> <<1>>,
   links |-> [u \in Pages |-> <<u, Wrap(u + 1), Wrap(u + 2)>>],
   kind  |-> [u \in Pages |-> IF u = 2 THEN "err"
                               ELSE IF u = NumPages THEN "none" ELSE "ok"],
   final |-> [u \in Pages |-> u]],
  [start |-> <<2, 1>>,
   links |-> [u \in Pages |-> IF u = 1 THEN <<NumPages, BadURL>>
                               ELSE IF u = 2 THEN <<NumPages>> ELSE <<>>],
   kind  |-> [u \in Pages |-> "ok"],
   final |-> [u \in Pages |-> u]],
  [start |-> <<>>,
   links |-> [u \in Pages |-> <<>>],
   kind  |-> [u \in Pages |-> "ok"],
   final |-> [u \in Pages |-> u]],
  [start |-> <<NumPages, 1, 2>>,
   links |-> [u \in Pages |-> <<>>],
   kind  |-> [u \in Pages |-> IF u = 1 THEN "err" ELSE "ok"],
   final |-> [u \in Pages |-> IF u = 2 THEN NumPages ELSE u]] >>

\* Crawler.crawl: the outbound links of the result for url
Outlinks(wld, url) ==
  IF Worlds[wld].kind[url] = "ok" THEN Worlds[wld].links[url] ELSE <<>>

\* The Crawler the ConcurrentCrawler drives: a FIFO of pending URLs and the
\* set of URLs ever queued.  enqueue appends (or, with before, prepends) the
\* URLs not yet queued.
sup_enqueue(q, qd, urls, before, ignore_queued) ==
  IF \E u \in Range(urls) : scheme(u) \notin SUPPORTED_SCHEMES
  THEN [exc |-> "InvalidScheme", queue |-> q, queued |-> qd]
  ELSE IF ~ignore_queued /\ Range(urls) \cap qd # {}
  THEN [exc |-> "AlreadyQueued", queue |-> q, queued |-> qd]
  ELSE LET new == Dedup(SelectNotIn(urls, qd))
       IN  [exc |-> "none",
            queue |-> IF before THEN new \o q ELSE q \o new,
            queued |-> qd \cup Range(new)]

\* reset: forget that the URLs were queued
sup_reset(qd, urls) == qd \ Range(urls)

\* reset((url,)) then enqueue((url,), before=True)
Restore(s, urls) ==
  LET r == sup_enqueue(s.queue, sup_reset(s.queued, urls), urls, TRUE, FALSE)
  IN  [s EXCEPT !.queue = r.queue, !.queued = r.queued]

EmptySlot == [owner |-> 0, st |-> "empty", url |-> 0]

NoSlot == [owner |-> 0, st |-> "none", url |-> 0]

\* asyncio.Queue.full
Full(s) == s.cap > 0 /\ Len(s.rq) >= s.cap

Pending(slots) == {i \in 1..Len(slots) : slots[i].st = "pending"}

Without(seq, S) == SelectNotIn(seq, S)

\* The state after __aenter__ and the call of pipe(): the tasks are created
\* and ready, none has run.
InitSupState(n, cap, wld) ==
  [n |-> n, cap |-> cap, world |-> wld,
   ready |-> <<Consumer>> \o [i \in 1..n |-> i],
   pc |-> [t \in 0..MaxWorkers |->
             IF t = Consumer THEN "init" ELSE IF t <= n THEN "start" ELSE "off"],
   cancelled |-> {},
   rq |-> <<>>, held |-> NoSlot, drain |-> <<>>,
   stopping |-> 0, awakeW |-> <<>>, putters |-> <<>>,
   tasks |-> 1..n,
   queue |-> Dedup(Worlds[wld].start), queued |-> Range(Worlds[wld].start),
   dequeued |-> <<>>, finished |-> <<>>, emitted |-> <<>>, restored |-> <<>>,
   wrestored |-> <<>>,
   stopped |-> "no", exit |-> "none"]

(***************************************************************************)
(* Steps of the event loop.  Each operator maps the state s to the state   *)
(* after the running task (the head of s.ready) has run to its next        *)
(* suspension point.                                                       *)
(***************************************************************************)
SetSlots(slots, w, st) ==
  [i \in 1..Len(slots) |->
     IF slots[i].owner = w /\ slots[i].st = "pending"
     THEN [slots[i] EXCEPT !.st = st, !.owner = 0] ELSE slots[i]]

\* future.set_result / future.cancel on the future worker w put in the result
\* queue: the consumer awaiting it (in pipe's loop, or in the gather of the
\* cleanup once no future is pending) becomes ready.
Resolve(s, w, st) ==
  LET rq2    == SetSlots(s.rq, w, st)
      drain2 == SetSlots(s.drain, w, st)
      mine   == s.held.owner = w /\ s.held.st = "pending"
      held2  == IF mine THEN [s.held EXCEPT !.st = st, !.owner = 0] ELSE s.held
      wake   == \/ mine /\ s.pc[Consumer] = "await"
                \/ /\ s.pc[Consumer] = "gather"
                   /\ Pending(s.drain) # {} /\ Pending(drain2) = {}
  IN  [s EXCEPT !.rq = rq2, !.drain = drain2, !.held = held2,
                !.ready = IF wake THEN Append(@, Consumer) ELSE @]

\* Queue._wakeup_next(putters), k times: the first k blocked putters wake up
WakePutters(s, k) ==
  LET j     == IF k < Len(s.putters) THEN k ELSE Len(s.putters)
      woken == SubSeq(s.putters, 1, j)
  IN  [s EXCEPT !.putters = SubSeq(@, j + 1, Len(@)),
                !.ready = @ \o woken,
                !.pc = [t \in DOMAIN @ |->
                          IF t \in Range(woken) THEN "putwoken" ELSE @[t]]]

\* run() with the future put at the front of the result queue
WorkerTop_mut_lifo(s, w) ==
  IF Full(s)
  THEN [s EXCEPT !.pc[w] = "putwait", !.putters = Append(@, w)]
  ELSE IF s.queue = <<>>
  THEN [s EXCEPT !.rq = Append(@, EmptySlot),
                 !.stopping = @ - 1,
                 !.awakeW = Append(@, w),
                 !.pc[w] = "idle"]
  ELSE [s EXCEPT !.rq = <<[owner |-> w, st |-> "pending",
                           url |-> Head(s.queue)]>> \o @,
                 !.queue = Tail(@),
                 !.dequeued = Append(@, Head(s.queue)),
                 !.pc[w] = "fetch"]

\* run(), from the top of its loop to the next suspension: put a future in
\* the result queue (blocking while it is full), then dequeue a URL and start
\* fetching it, or resolve the future with QueueEmpty and wait for the awake
\* event inside `async with self._stopping`.
WorkerTop(s, w) ==
  IF Full(s)
  THEN [s EXCEPT !.pc[w] = "putwait", !.putters = Append(@, w)]
  ELSE IF s.queue = <<>>
  THEN [s EXCEPT !.rq = Append(@, EmptySlot),
                 !.stopping = @ - 1,
                 !.awakeW = Append(@, w),
                 !.pc[w] = "idle"]
  ELSE [s EXCEPT !.rq = Append(@, [owner |-> w, st |-> "pending",
                                   url |-> Head(s.queue)]),
                 !.queue = Tail(@),
                 !.dequeued = Append(@, Head(s.queue)),
                 !.pc[w] = "fetch"]

\* the URL worker w is fetching
FetchedURL(s, w) ==
  LET all == s.rq \o s.drain \o <<s.held>>
  IN  all[CHOOSE i \in 1..Len(all) : all[i].owner = w /\ all[i].st = "pending"].url

\* the running task suspends or ends: the loop takes the next ready task
Suspend(s) == [s EXCEPT !.ready = Tail(@)]

\* run() resumed without a cancellation
WorkerRun(s, w) ==
  Suspend(
    CASE s.pc[w] = "start"    -> WorkerTop([s EXCEPT !.stopping = @ + 1], w)
      [] s.pc[w] = "putwoken" -> WorkerTop(s, w)
      [] s.pc[w] = "fetch"    ->
           WorkerTop(Resolve([s EXCEPT !.finished = Append(@, FetchedURL(s, w))],
                             w, "res"), w)
      [] s.pc[w] = "idle"     -> WorkerTop([s EXCEPT !.stopping = @ + 1], w))

\* run() cancelled, without the reset and enqueue of the URL it was fetching
WorkerCancelled_mut_norestore(s, w) ==
  LET s1 == CASE s.pc[w] = "start"    -> s
              [] s.pc[w] = "putwait"  -> s
              [] s.pc[w] = "putwoken" -> IF Full(s) THEN s ELSE WakePutters(s, 1)
              [] s.pc[w] = "fetch"    -> Resolve(s, w, "cancelled")
              [] s.pc[w] = "idle"     -> [s EXCEPT !.stopping = @ + 1]
  IN  Suspend([s1 EXCEPT !.pc[w] = "done",
                         !.cancelled = @ \ {w},
                         !.tasks = @ \ {w}])

\* run() cancelled, with the URL it was fetching enqueued at the back
WorkerCancelled_mut_append(s, w) ==
  LET s1 == CASE s.pc[w] = "start"    -> s
              [] s.pc[w] = "putwait"  -> s
              [] s.pc[w] = "putwoken" -> IF Full(s) THEN s ELSE WakePutters(s, 1)
              [] s.pc[w] = "fetch"    ->
                   LET url == FetchedURL(s, w)
                       r == sup_enqueue(s.queue, sup_reset(s.queued, <<url>>),
                                        <<url>>, FALSE, FALSE)
                   IN  Resolve([s EXCEPT !.queue = r.queue, !.queued = r.queued,
                                         !.restored = Append(@, url),
                                         !.wrestored = Append(@, url)],
                               w, "cancelled")
              [] s.pc[w] = "idle"     -> [s EXCEPT !.stopping = @ + 1]
  IN  Suspend([s1 EXCEPT !.pc[w] = "done",
                         !.cancelled = @ \ {w},
                         !.tasks = @ \ {w}])

\* run() resumed with CancelledError at its suspension point; restored and
\* wrestored keep the URLs put back, by anyone and by the workers
WorkerCancelled(s, w) ==
  LET s1 == CASE s.pc[w] = "start"    -> s
              [] s.pc[w] = "putwait"  -> s
              [] s.pc[w] = "putwoken" -> IF Full(s) THEN s ELSE WakePutters(s, 1)
              [] s.pc[w] = "fetch"    ->
                   LET url == FetchedURL(s, w)
                   IN  Resolve([Restore(s, <<url>>) EXCEPT
                                  !.restored = Append(@, url),
                                  !.wrestored = Append(@, url)], w, "cancelled")
              [] s.pc[w] = "idle"     -> [s EXCEPT !.stopping = @ + 1]
  IN  Suspend([s1 EXCEPT !.pc[w] = "done",
                         !.cancelled = @ \ {w},
                         !.tasks = @ \ {w}])

\* task.cancel(): a task suspended on a future wakes up with CancelledError;
\* a task that is ready gets it when it runs next
Cancel(s, t) ==
  IF s.pc[t] = "done" THEN s
  ELSE [s EXCEPT !.cancelled = @ \cup {t},
                 !.ready = IF t \in Range(@) THEN @ ELSE Append(@, t),
                 !.awakeW = Without(@, {t}),
                 !.putters = Without(@, {t})]

RECURSIVE CancelEach(_, _)
CancelEach(s, order) ==
  IF order = <<>> THEN s ELSE CancelEach(Cancel(s, Head(order)), Tail(order))

\* the orders in which the set of tasks may be iterated
Orders(S) == {o \in [1..Cardinality(S) -> S] : Range(o) = S}

\* stop(): cancel every task of _tasks, in the order the set gives them
stop(s, order) ==
  [CancelEach(s, SelectIn(order, s.tasks)) EXCEPT !.tasks = {}]

\* await sleep(0) in the consumer: it goes to the end of the ready tasks
Sleep0(s) == [s EXCEPT !.ready = Tail(@) \o <<Consumer>>]

\* the URLs of the resolved results among the futures, in their order
ResolvedURLs(slots) ==
  SelectIn([i \in 1..Len(slots) |-> IF slots[i].st = "res" THEN slots[i].url ELSE 0],
           Pages)

\* The cleanup of pipe() (its outer finally): stop the workers, take every
\* future left in the result queue and gather them.  With no future left the
\* gather does not suspend and pipe() ends at once.
Cleanup(s, why, order) ==
  LET s1 == stop([s EXCEPT !.held = NoSlot, !.exit = why], order)
      s2 == WakePutters(s1, Len(s1.rq))
  IN  IF s2.rq = <<>>
      THEN Suspend([s2 EXCEPT !.pc[Consumer] = "done"])
      ELSE [s2 EXCEPT !.drain = s2.rq, !.rq = <<>>,
                      !.pc[Consumer] = "gather",
                      !.ready = Tail(@) \o (IF Pending(s2.rq) = {}
                                            THEN <<Consumer>> ELSE <<>>)]

\* the cleanup enqueuing the URLs of the unconsumed results without before
Gathered_mut_append(s) ==
  LET urls == ResolvedURLs(s.drain)
      r    == sup_enqueue(s.queue, sup_reset(s.queued, urls), urls, FALSE, FALSE)
  IN  Suspend([s EXCEPT !.queue = r.queue, !.queued = r.queued,
                        !.drain = <<>>,
                        !.restored = @ \o urls,
                        !.pc[Consumer] = "done"])

\* the gather is over: reset and enqueue(before=True) the URLs of the results
\* nobody consumed
Gathered(s) ==
  LET urls == ResolvedURLs(s.drain)
  IN  Suspend([Restore(s, urls) EXCEPT !.drain = <<>>,
                                       !.restored = @ \o urls,
                                       !.pc[Consumer] = "done"])

\* `yield ret`: the result goes to the caller, which asks for the next one at
\* once (imm) or after it was suspended itself
Yield(s, imm) ==
  LET s1 == [s EXCEPT !.emitted = Append(@, s.held.url)]
  IN  IF imm THEN [s1 EXCEPT !.pc[Consumer] = "resume"]
      ELSE Suspend([s1 EXCEPT !.pc[Consumer] = "yielded"])

LeadingEmpty(slots) ==
  IF \A i \in 1..Len(slots) : slots[i].st = "empty" THEN Len(slots)
  ELSE (CHOOSE i \in 1..Len(slots) :
          /\ slots[i].st # "empty"
          /\ \A j \in 1..(i - 1) : slots[j].st = "empty") - 1

\* pipe()'s loop from its top: futures resolved with QueueEmpty are skipped;
\* an empty result queue makes the consumer stop the workers when all of them
\* idle and sleep(0), or, with no task left, leave the loop
PipeLoop(s, imm, order) ==
  LET k    == LeadingEmpty(s.rq)
      rest == SubSeq(s.rq, k + 1, Len(s.rq))
  IN  IF rest = <<>>
      THEN LET s1 == WakePutters([s EXCEPT !.rq = <<>>], k)
           IN  IF s1.tasks # {}
               THEN Sleep0([(IF s1.stopping = 0 THEN stop(s1, order) ELSE s1)
                              EXCEPT !.pc[Consumer] = "loop"])
               ELSE Cleanup(s1, "drained", order)
      ELSE LET slot == Head(rest)
               s1   == WakePutters([s EXCEPT !.rq = Tail(rest)], k + 1)
           IN  CASE slot.st = "pending" ->
                      Suspend([s1 EXCEPT !.held = slot, !.pc[Consumer] = "await"])
                 [] slot.st = "cancelled" -> Cleanup(s1, "cancelled", order)
                 [] slot.st = "res" -> Yield([s1 EXCEPT !.held = slot], imm)

\* pipe() after its yield, without the pulse of the awake event
AfterYield_mut_nopulse(s, imm, order) ==
  LET url == s.held.url
      out == Outlinks(s.world, url)
      s0  == [s EXCEPT !.held = NoSlot]
      r   == sup_enqueue(s.queue, s.queued, out, FALSE, TRUE)
  IN  IF Worlds[s.world].kind[url] = "err" THEN PipeLoop(s0, imm, order)
      ELSE IF r.exc # "none"
      THEN Cleanup([Restore(s0, <<url>>) EXCEPT !.restored = Append(@, url)],
                   "error", order)
      ELSE IF out = <<>> THEN PipeLoop(s0, imm, order)
      ELSE Sleep0([s0 EXCEPT !.queue = r.queue, !.queued = r.queued,
                             !.pc[Consumer] = "loop"])

\* pipe() after its yield: a CrawlError is skipped; the outbound links of a
\* result are enqueued and, when there are any, the idle workers are woken
AfterYield(s, imm, order) ==
  LET url == s.held.url
      out == Outlinks(s.world, url)
      s0  == [s EXCEPT !.held = NoSlot]
      r   == sup_enqueue(s.queue, s.queued, out, FALSE, TRUE)
  IN  IF Worlds[s.world].kind[url] = "err" THEN PipeLoop(s0, imm, order)
      ELSE IF r.exc # "none"
      THEN Cleanup([Restore(s0, <<url>>) EXCEPT !.restored = Append(@, url)],
                   "error", order)
      ELSE IF out = <<>> THEN PipeLoop(s0, imm, order)
      ELSE Sleep0([s0 EXCEPT !.queue = r.queue, !.queued = r.queued,
                             !.ready = @ \o s0.awakeW, !.awakeW = <<>>,
                             !.pc[Consumer] = "loop"])

\* pipe() resumed by the loop
PipeRun(s, imm, order) ==
  CASE s.pc[Consumer] = "init" ->
         IF s.stopping = 0 THEN Sleep0(s) ELSE PipeLoop(s, imm, order)
    [] s.pc[Consumer] = "loop" -> PipeLoop(s, imm, order)
    [] s.pc[Consumer] = "await" ->
         IF s.held.st = "cancelled" THEN Cleanup(s, "cancelled", order)
         ELSE Yield(s, imm)
    [] s.pc[Consumer] = "resume" -> AfterYield(s, imm, order)
    [] s.pc[Consumer] = "closing" ->
         Cleanup([Restore(s, <<s.held.url>>) EXCEPT
                    !.restored = Append(@, s.held.url)], "closed", order)
    [] s.pc[Consumer] = "gather" -> Gathered(s)

(***************************************************************************)
(* The concurrent crawl as a state machine.                                *)
(***************************************************************************)
Workers == 1..sup.n

Running(t) == sup.ready # <<>> /\ Head(sup.ready) = t

\* what the last step was: the loop ran a task (tick tells two turns of the
\* loop in a row apart), an I/O completed, or the caller of pipe() acted
RunMark == [op |-> "run", tick |-> IF last = [op |-> "run", tick |-> 0] THEN 1 ELSE 0]

IOMark == [op |-> "io", tick |-> 0]

CallMark == [op |-> "call", tick |-> 0]

InitSup ==
  /\ InitCrawlerVars
  /\ last = NoOp
  /\ db = EmptyDB
  /\ calls = 0
  /\ sup \in {InitSupState(n, cap, wld) :
                n \in 1..MaxWorkers, cap \in 0..MaxQueueSize,
                wld \in 1..Len(Worlds)}
  /\ mn = NoMain
  /\ am = NoMap

\* the loop runs worker w, which was not cancelled
WorkerStep(w) ==
  /\ Running(w) /\ w \notin sup.cancelled
  /\ sup' = WorkerRun(sup, w)
  /\ last' = RunMark

\* the loop runs worker w, which gets CancelledError
WorkerCancelStep(w) ==
  /\ Running(w) /\ w \in sup.cancelled
  /\ sup' = WorkerCancelled(sup, w)
  /\ last' = RunMark

\* the fetch of worker w completes: the worker becomes ready
FetchDone(w) ==
  /\ sup.pc[w] = "fetch" /\ w \notin Range(sup.ready)
  /\ sup' = [sup EXCEPT !.ready = Append(@, w)]
  /\ last' = IOMark

\* the loop runs the consumer inside pipe()
PipeStep ==
  /\ Running(Consumer)
  /\ sup.pc[Consumer] \in {"init", "loop", "await", "resume", "closing", "gather"}
  /\ \E imm \in BOOLEAN, order \in Orders(Workers) :
       sup' = PipeRun(sup, imm, order)
  /\ last' = RunMark

\* the caller, suspended since the last result, asks for the next one
CallerNext ==
  /\ sup.pc[Consumer] = "yielded"
  /\ sup' = [sup EXCEPT !.pc[Consumer] = "resume", !.ready = Append(@, Consumer)]
  /\ last' = CallMark

\* the caller closes the iterator instead: GeneratorExit at the yield
CallerClose ==
  /\ sup.pc[Consumer] = "yielded"
  /\ sup' = [sup EXCEPT !.pc[Consumer] = "closing", !.ready = Append(@, Consumer)]
  /\ last' = CallMark

\* stop() is called from outside pipe() (by __aexit__ or by the caller)
StopCall ==
  /\ sup.tasks # {}
  /\ \E order \in Orders(Workers) :
       sup' = [stop(sup, order) EXCEPT
                 !.stopped = IF \E w \in Workers : sup.pc[w] = "start"
                             THEN "early" ELSE "yes"]
  /\ last' = CallMark

NextSup ==
  /\ \/ \E w \in Workers : WorkerStep(w)
     \/ \E w \in Workers : WorkerCancelStep(w)
     \/ \E w \in Workers : FetchDone(w)
     \/ PipeStep
     \/ CallerNext
     \/ CallerClose
     \/ StopCall
  /\ UNCHANGED <<crawlerVars, storeVars, mainVars, mapVars>>

SpecSup == InitSup /\ [][NextSup]_vars

\* The event loop runs the first ready task whenever there is one, and every
\* fetch completes.
LoopTurn == sup.ready # <<>> /\ last' = RunMark

FetchCompletes(w) ==
  w \in Workers /\ FetchDone(w) /\ UNCHANGED <<crawlerVars, storeVars, mainVars, mapVars>>

\* the caller of pipe() that holds a result asks for the next one or closes
CallerActs ==
  (CallerNext \/ CallerClose) /\ UNCHANGED <<crawlerVars, storeVars, mainVars, mapVars>>

SpecSupFair ==
  /\ SpecSup
  /\ WF_last(LoopTurn)
  /\ WF_vars(CallerActs)
  /\ \A w \in 1..MaxWorkers : WF_vars(FetchCompletes(w))

\* C1: the consumer receives the results in the order in which their URLs
\* were dequeued from the crawler.
C1_ResultsInDequeueOrder == IsPrefix(sup.emitted, sup.dequeued)

\* C1 witness: two workers, two results handed to the consumer, their fetches
\* having finished in another order than their URLs were dequeued.
C1_Witness ==
  /\ sup # NoSup
  /\ sup.n >= 2 /\ Len(sup.emitted) >= 2
  /\ ~IsPrefix(sup.finished, sup.dequeued)
  /\ Range(sup.finished) \subseteq Range(sup.emitted)

WorkersDone == \A w \in Workers : sup.pc[w] = "done"

SupDone == WorkersDone /\ sup.pc[Consumer] = "done"

\* C6: after stop() was called (by the caller or by __aexit__) while every
\* worker was fetching, idle or waiting to put, every worker task ends and
\* the iteration of the consumer ends; no worker is left waiting on the result
\* queue or on the awake event; and every URL that was dequeued and not
\* handed to the consumer is back in the crawler's queue.
C6_CleanCancellation ==
  /\ (sup.stopped = "yes") ~> SupDone
  /\ []((sup.stopped = "yes" /\ WorkersDone)
          => (sup.awakeW = <<>> /\ sup.putters = <<>>))
  /\ []((sup.stopped = "yes" /\ SupDone)
          => \A u \in Range(sup.dequeued) \ Range(sup.emitted) :
               u \in Range(sup.queue))

\* C6 witness: stop() was called from outside pipe(), all tasks have ended
\* and a URL that was being fetched is back in the queue.
C6_Witness ==
  /\ sup # NoSup
  /\ sup.stopped = "yes" /\ SupDone
  /\ \E u \in Range(sup.restored) :
       u \notin Range(sup.finished) /\ u \in Range(sup.queue)

\* the futures of the result queue that exist: those in the queue, the one the
\* consumer holds and those its cleanup took
Slots == sup.rq \o sup.drain \o <<sup.held>>

\* the URLs of the crawler queue that were never dequeued
NeverDequeued == Range(sup.queue) \ Range(sup.dequeued)

\* a URL a cancelled worker put back: it was not handed to the consumer and
\* its future is cancelled
PutBackByWorker(u) ==
  /\ u \notin Range(sup.emitted)
  /\ \A i \in 1..Len(Slots) : Slots[i].url = u => Slots[i].st = "cancelled"

\* C26 as stated: a worker cancelled while it fetches U resets U and prepends
\* it to the crawler queue, its future is cancelled, no result for U is
\* emitted, and U is at the head of the queue for the next run.
C26_Original ==
  sup # NoSup =>
    \A u \in Range(sup.wrestored) :
      /\ PutBackByWorker(u)
      /\ SupDone => (sup.queue # <<>> /\ Head(sup.queue) = u)

\* C26: a worker cancelled while it fetches U resets U and prepends it to the
\* crawler queue, its future is cancelled and no result for U is emitted; U
\* stays in the queue for the next run, before every URL never dequeued (the
\* URLs put back after it come before it).
C26_CancelledWorkerRestores ==
  sup # NoSup =>
    \A u \in Range(sup.wrestored) :
      /\ PutBackByWorker(u)
      /\ u \in Range(sup.queue)
      /\ \A v \in NeverDequeued :
           FirstIndex(sup.queue, u) < FirstIndex(sup.queue, v)

\* C26 witness: the crawl has ended, a cancelled worker put back the URL it
\* was fetching while a result had been handed to the consumer, and a URL
\* never dequeued is behind it in the queue.
C26_Witness ==
  /\ sup # NoSup /\ SupDone
  /\ Len(sup.wrestored) >= 1
  /\ Len(sup.emitted) >= 1
  /\ NeverDequeued # {}

\* The URLs whose fetch resolved its future (with a result or a CrawlError)
\* and whose result the consumer never took, in the order of their dequeue.
Unconsumed ==
  SelectIn(sup.dequeued, Range(sup.finished) \ Range(sup.emitted))

PipeExited == sup # NoSup /\ sup.pc[Consumer] = "done"

DeclaresDrained ==
  /\ Running(Consumer) /\ last'.op = "run"
  /\ sup.tasks # {} /\ sup'.tasks = {}
  /\ sup'.pc[Consumer] = "loop"

\* the step of pipe() that enqueues the outbound links of a result
EnqueuesOutlinks ==
  /\ Running(Consumer) /\ last'.op = "run"
  /\ sup.pc[Consumer] = "resume" /\ sup'.exit = "none"
  /\ sup'.queue # sup.queue

Sleepers == Range(sup.awakeW)

\* the workers woken from the awake event that have not run yet
Woken == {w \in Workers : sup.pc[w] = "idle" /\ w \in Range(sup.ready)}

DrainedOnlyWhenIdle ==
  DeclaresDrained =>
    /\ \A w \in Workers : sup.pc[w] = "idle" /\ w \in Sleepers
    /\ \A i \in 1..Len(sup.rq) : sup.rq[i].st = "empty"
    /\ sup'.rq = <<>>
    /\ sup.queue = <<>>

EnqueueWakesSleepers ==
  EnqueuesOutlinks =>
    /\ Sleepers \subseteq Range(sup'.ready)
    /\ sup'.awakeW = <<>>

\* a woken worker that runs takes the semaphore back and puts a future:
\* it dequeues a URL, finds the queue empty again, or waits for room in the
\* result queue
WokenResumes ==
  \A w \in Workers :
    Running(w) /\ last'.op = "run" /\ sup.pc[w] = "idle" /\ w \notin sup.cancelled =>
      \/ sup.queue # <<>> /\ sup'.dequeued = Append(sup.dequeued, Head(sup.queue))
      \/ sup.queue = <<>> /\ w \in Range(sup'.awakeW)
      \/ Full(sup) /\ sup'.pc[w] = "putwait"

\* C28: pipe() stops the workers for a drained crawl only when every worker
\* waits on the awake event, the result queue is empty and the crawler's
\* queue is empty; no worker sleeps while a URL is queued, an enqueue of
\* outbound links wakes every sleeping worker, and a woken worker gets to
\* run and dequeues again.
C28_DrainedOnlyWhenIdleNoLostWakeup ==
  /\ [](Sleepers # {} => sup.queue = <<>>)
  /\ [][DrainedOnlyWhenIdle /\ EnqueueWakesSleepers /\ WokenResumes]_vars
  /\ \A w \in 1..MaxWorkers :
       (w \in Woken) ~> (w \notin Woken)

\* the consumer has woken two sleeping workers with the links of a result,
\* both dequeued one, and the crawl was later declared drained
C28_Witness ==
  /\ PipeExited /\ sup.exit = "drained" /\ sup.stopped = "no"
  /\ sup.n = 2 /\ Len(Worlds[sup.world].start) = 1
  /\ Len(sup.emitted) = NumPages
  /\ sup.queue = <<>>

(***************************************************************************)
(* The crawl of the main program (crawl/main.py).  Inside one TaskGroup    *)
(* run n crawl() tasks (1..n), one crawl_to_index_bridge() task (0) and m  *)
(* index() tasks (MaxWorkers+1 .. MaxWorkers+m), on the same event loop.   *)
(* The state is a record; its fields carry the names of main()'s locals.   *)
(***************************************************************************)
Bridge == 0

MainTasks == 0..(MaxWorkers + MaxIndexers)

CrawlTasks(s) == 1..s.n

IndexTasks(s) == (MaxWorkers + 1)..(MaxWorkers + s.m)

\* The state when the TaskGroup has created its tasks: the start URLs are
\* enqueued, the tasks are ready in the order of their creation.
InitMainState(n, m, wld, page_count) ==
  [n |-> n, m |-> m, world |-> wld, page_count |-> page_count,
   ready |-> [i \in 1..n |-> i] \o <<Bridge>> \o [i \in 1..m |-> MaxWorkers + i],
   pc |-> [t \in MainTasks |->
             IF t = Bridge THEN "init"
             ELSE IF t \in 1..n \/ t \in (MaxWorkers + 1)..(MaxWorkers + m)
                  THEN "start" ELSE "off"],
   cancelled |-> {},
   crawl_queue |-> <<>>, held |-> NoSlot,
   crawling |-> TRUE, stopping |-> 0, awakeW |-> <<>>,
   database_queue |-> <<>>, getters |-> <<>>,
   locked |-> FALSE, lockW |-> <<>>, cur |-> [t \in MainTasks |-> 0],
   pages_crawled |-> 0, indexed |-> {}, acquired |-> <<>>, committed |-> <<>>,
   pages |-> {}, uncommitted |-> {},
   queue |-> enqueue_many(<<>>, {}, Worlds[wld].start, FALSE).queue,
   visited |-> {},
   dequeued |-> <<>>, finished |-> <<>>, emitted |-> <<>>, failed |-> FALSE]

\* value.val = (event, ...); event.set(): the Value crawl task w put in
\* crawl_queue gets its result, and the bridge waiting for it becomes ready
SetValue(s, w, st) ==
  LET mine == s.held.owner = w /\ s.held.st = "pending"
  IN  [s EXCEPT !.crawl_queue = SetSlots(@, w, st),
                !.held = IF mine THEN [@ EXCEPT !.st = st, !.owner = 0] ELSE @,
                !.ready = IF mine /\ s.pc[Bridge] = "await"
                          THEN Append(@, Bridge) ELSE @]

\* the URL crawl task w is fetching
CrawledURL(s, w) ==
  LET all == s.crawl_queue \o <<s.held>>
  IN  all[CHOOSE i \in 1..Len(all) : all[i].owner = w /\ all[i].st = "pending"].url

\* crawl() with its Value put in front of crawl_queue
CrawlTop_mut_lifo(s, w) ==
  LET d == dequeue(s.queue, s.visited)
  IN  IF ~s.crawling THEN [s EXCEPT !.pc[w] = "done"]
      ELSE IF d.exc = "QueueEmpty"
      THEN [s EXCEPT !.crawl_queue = Append(@, EmptySlot),
                     !.stopping = @ - 1,
                     !.awakeW = Append(@, w),
                     !.pc[w] = "idle"]
      ELSE [s EXCEPT !.crawl_queue = <<[owner |-> w, st |-> "pending",
                                        url |-> d.url]>> \o @,
                     !.queue = d.queue, !.visited = d.visited,
                     !.dequeued = Append(@, d.url),
                     !.pc[w] = "fetch"]

\* crawl() from the test of its loop to its next suspension: it ends when
\* crawling is off; else it puts a Value in crawl_queue (unbounded) and
\* dequeues a URL to fetch, or, with QueueEmpty, waits for the awake event
\* inside `async with stopping_crawl_semaphore`
CrawlTop(s, w) ==
  LET d == dequeue(s.queue, s.visited)
  IN  IF ~s.crawling THEN [s EXCEPT !.pc[w] = "done"]
      ELSE IF d.exc = "QueueEmpty"
      THEN [s EXCEPT !.crawl_queue = Append(@, EmptySlot),
                     !.stopping = @ - 1,
                     !.awakeW = Append(@, w),
                     !.pc[w] = "idle"]
      ELSE [s EXCEPT !.crawl_queue = Append(@, [owner |-> w, st |-> "pending",
                                                url |-> d.url]),
                     !.queue = d.queue, !.visited = d.visited,
                     !.dequeued = Append(@, d.url),
                     !.pc[w] = "fetch"]

\* crawl() whose task ends when the fetch raised a CrawlError
CrawlRun_mut_stoponerror(s, w) ==
  Suspend(
    CASE s.pc[w] = "start" -> CrawlTop([s EXCEPT !.stopping = @ + 1], w)
      [] s.pc[w] = "fetch" ->
           LET s1 == SetValue([s EXCEPT !.finished = Append(@, CrawledURL(s, w))],
                              w, "res")
           IN  IF Worlds[s.world].kind[CrawledURL(s, w)] = "err"
               THEN [s1 EXCEPT !.pc[w] = "done"]
               ELSE CrawlTop(s1, w)
      [] s.pc[w] = "idle"  -> CrawlTop([s EXCEPT !.stopping = @ + 1], w))

\* crawl() resumed without a cancellation
CrawlRun(s, w) ==
  Suspend(
    CASE s.pc[w] = "start" -> CrawlTop([s EXCEPT !.stopping = @ + 1], w)
      [] s.pc[w] = "fetch" ->
           CrawlTop(SetValue([s EXCEPT !.finished = Append(@, CrawledURL(s, w))],
                             w, "res"), w)
      [] s.pc[w] = "idle"  -> CrawlTop([s EXCEPT !.stopping = @ + 1], w))

\* crawl() resumed with CancelledError: a task that never ran or that waits
\* for the awake event ends; one that is fetching catches it (`except
\* BaseException`), stores it in the Value and goes on with its loop
CrawlCancelled(s, w) ==
  LET s0 == [s EXCEPT !.cancelled = @ \ {w}]
  IN  Suspend(
        CASE s.pc[w] = "start" -> [s0 EXCEPT !.pc[w] = "done"]
          [] s.pc[w] = "fetch" -> CrawlTop(SetValue(s0, w, "exc"), w)
          [] s.pc[w] = "idle"  -> [s0 EXCEPT !.stopping = @ + 1, !.pc[w] = "done"])

\* the item of database_queue for the value of a crawl: a result with its
\* content ("ok"), a result without ("none"), a CrawlError ("err") or a
\* CancelledError ("cancelled")
ItemOf(s, slot) ==
  [url |-> slot.url,
   kind |-> IF slot.st = "exc" THEN "cancelled" ELSE Worlds[s.world].kind[slot.url]]

\* the `...` that ends an index task
EndItem == [url |-> 0, kind |-> "end"]

\* Queue._wakeup_next(getters), k times
WakeGetters(s, k) ==
  LET j     == IF k < Len(s.getters) THEN k ELSE Len(s.getters)
      woken == SubSeq(s.getters, 1, j)
  IN  [s EXCEPT !.getters = SubSeq(@, j + 1, Len(@)),
                !.ready = @ \o woken,
                !.pc = [t \in DOMAIN @ |->
                          IF t \in Range(woken) THEN "getwoken" ELSE @[t]]]

\* database_queue.put(item): the queue is unbounded
PutDatabase(s, item) ==
  WakeGetters([s EXCEPT !.database_queue = Append(@, item)], 1)

\* awake_crawl_event.set(); awake_crawl_event.clear()
Awake(s) == [s EXCEPT !.ready = @ \o s.awakeW, !.awakeW = <<>>]

\* await sleep(0) in the bridge
BridgeSleep0(s) == [s EXCEPT !.ready = Tail(@) \o <<Bridge>>]

RECURSIVE BridgeLoop(_)
\* crawl_to_index_bridge() from the top of its loop to its next suspension.
\* A Value with QueueEmpty is dropped.  The outbound links of a result are
\* enqueued (ignore_visited), the value goes to database_queue and, when
\* there were links, the idle crawl tasks are woken and the bridge sleeps.
\* With crawl_queue empty it turns crawling off once every crawl task idles,
\* and with crawling off it sends one `...` to each index task and ends.
BridgeLoop(s) ==
  LET k    == LeadingEmpty(s.crawl_queue)
      rest == SubSeq(s.crawl_queue, k + 1, Len(s.crawl_queue))
  IN  IF rest = <<>>
      THEN LET s1 == [s EXCEPT !.crawl_queue = <<>>]
           IN  IF s1.crawling
               THEN BridgeSleep0(
                      [(IF s1.stopping = 0
                        THEN Awake([s1 EXCEPT !.crawling = FALSE]) ELSE s1)
                         EXCEPT !.pc[Bridge] = "loop"])
               ELSE BridgeSleep0([s1 EXCEPT !.pc[Bridge] = "fill"])
      ELSE LET slot == Head(rest)
               s1   == [s EXCEPT !.crawl_queue = Tail(rest)]
               tuple == slot.st = "res" /\ Worlds[s.world].kind[slot.url] # "err"
               out  == IF tuple THEN Outlinks(s.world, slot.url) ELSE <<>>
               r    == enqueue_many(s.queue, s.visited, out, TRUE)
               s2   == PutDatabase([s1 EXCEPT !.held = NoSlot, !.queue = r.queue,
                                              !.emitted = Append(@, slot.url)],
                                   ItemOf(s, slot))
           IN  IF slot.st = "pending"
               THEN Suspend([s1 EXCEPT !.held = slot, !.pc[Bridge] = "await"])
               ELSE IF r.exc # "none"
               THEN BridgeSleep0([s1 EXCEPT !.held = NoSlot, !.failed = TRUE,
                                            !.pc[Bridge] = "abort"])
               ELSE IF out # <<>>
               THEN BridgeSleep0([Awake(s2) EXCEPT !.pc[Bridge] = "loop"])
               ELSE BridgeLoop(s2)

\* task.cancel() by the TaskGroup
MainCancel(s, t) ==
  IF s.pc[t] \in {"done", "failed", "off", "abort"} THEN s
  ELSE [s EXCEPT !.cancelled = @ \cup {t},
                 !.ready = IF t \in Range(@) THEN @ ELSE Append(@, t),
                 !.awakeW = Without(@, {t}),
                 !.getters = Without(@, {t}),
                 !.lockW = IF s.pc[t] = "lockwait" THEN Without(@, {t}) ELSE @]

RECURSIVE MainCancelEach(_, _)
MainCancelEach(s, order) ==
  IF order = <<>> THEN s
  ELSE MainCancelEach(MainCancel(s, Head(order)), Tail(order))

\* TaskGroup._abort, run when a task of the group has failed: every task
\* that has not ended is cancelled, in the order the set gives them
Abort(s, order) ==
  Suspend([MainCancelEach(s, order) EXCEPT !.pc[Bridge] = "failed"])

\* the bridge resumed by the loop
BridgeRun(s, order) ==
  CASE s.pc[Bridge] = "init" ->
         IF s.stopping = 0 THEN BridgeSleep0(s) ELSE BridgeLoop(s)
    [] s.pc[Bridge] = "loop" -> BridgeLoop(s)
    [] s.pc[Bridge] = "await" ->
         BridgeLoop([s EXCEPT !.crawl_queue = <<s.held>> \o @, !.held = NoSlot])
    [] s.pc[Bridge] = "fill" ->
         Suspend(WakeGetters(
           [s EXCEPT !.database_queue = @ \o [i \in 1..s.m |-> EndItem],
                     !.pc[Bridge] = "done"], s.m))
    [] s.pc[Bridge] = "abort" -> Abort(s, order)

\* Lock._wake_up_first of database_lock: the first waiter, if it still
\* waits, becomes ready; it stays a waiter until it runs
WakeLock(s) ==
  IF s.lockW # <<>> /\ s.pc[Head(s.lockW)] = "lockwait"
  THEN [s EXCEPT !.pc[Head(s.lockW)] = "lockwoken",
                 !.ready = Append(@, Head(s.lockW))]
  ELSE s

\* database_lock.release()
Release(s) == WakeLock([s EXCEPT !.locked = FALSE])

\* `async with database_lock` that takes the lock whoever holds it
Acquire_mut_nolock(s, i) ==
  [s EXCEPT !.locked = TRUE, !.acquired = Append(@, s.cur[i]),
            !.pc[i] = "indexing"]

\* `async with database_lock` by index task i, for the page s.cur[i]: the
\* lock is taken when it is free and nobody waits for it; else the task waits
Acquire(s, i) ==
  IF ~s.locked /\ s.lockW = <<>>
  THEN [s EXCEPT !.locked = TRUE, !.acquired = Append(@, s.cur[i]),
                 !.pc[i] = "indexing"]
  ELSE [s EXCEPT !.lockW = Append(@, i), !.pc[i] = "lockwait"]

RECURSIVE IndexLoop(_, _)
\* index() from `await database_queue.get()` to its next suspension: `...`
\* ends the task; an exception and a result without content are skipped; for
\* a page it takes database_lock and starts database.index_page
IndexLoop(s, i) ==
  IF s.database_queue = <<>>
  THEN [s EXCEPT !.pc[i] = "getwait", !.getters = Append(@, i)]
  ELSE LET item == Head(s.database_queue)
           s1   == [s EXCEPT !.database_queue = Tail(@)]
       IN  CASE item.kind = "end" -> [s1 EXCEPT !.pc[i] = "done"]
             [] item.kind \in {"err", "none"} -> IndexLoop(s1, i)
             [] item.kind = "cancelled" -> [s1 EXCEPT !.pc[i] = "failed"]
             [] item.kind = "ok" -> Acquire([s1 EXCEPT !.cur[i] = item.url], i)

\* response.url: the URL the fetch of url ended at, after its redirects
Final(wld, url) == Worlds[wld].final[url]

\* database.index_page(page) for the page index task i got: nothing is
\* written (the call returns False) when main.pages has a row for the URL
\* whose mod_time is not older; a URL keeps its mod_time during the crawl.
\* The rows written stay uncommitted on the connection.
DatabaseIndexPage(s, i) ==
  LET url == Final(s.world, s.cur[i])
  IN  IF url \in s.pages \cup s.uncommitted THEN s
      ELSE [s EXCEPT !.uncommitted = @ \cup {url}]

\* database.conn.commit()
Commit(s) == [s EXCEPT !.pages = @ \cup s.uncommitted, !.uncommitted = {}]

\* `finally` without a rollback
Rollback_mut_none(s) == s

\* database.conn.rollback()
Rollback(s) == [s EXCEPT !.uncommitted = {}]

\* index() once database.index_page has returned, whatever it returned: the
\* transaction is counted and committed while pages_crawled < page_count;
\* the `finally` rolls back what is left
Written(s, i) ==
  Rollback(
    IF s.pages_crawled < s.page_count
    THEN Commit([s EXCEPT !.pages_crawled = @ + 1,
                          !.indexed = @ \cup {s.cur[i]},
                          !.committed = Append(@, s.cur[i]),
                          !.cur[i] = 0])
    ELSE [s EXCEPT !.cur[i] = 0])

\* index() resumed without a cancellation
IndexRun(s, i) ==
  Suspend(
    CASE s.pc[i] \in {"start", "getwoken"} -> IndexLoop(s, i)
      [] s.pc[i] = "lockwoken" ->
           [s EXCEPT !.locked = TRUE, !.lockW = Without(@, {i}),
                     !.acquired = Append(@, s.cur[i]),
                     !.pc[i] = "indexing"]
      [] s.pc[i] = "indexing" -> IndexLoop(Release(Written(s, i)), i))

\* index() resumed with CancelledError: the write in progress is rolled
\* back and the lock released
IndexCancelled(s, i) ==
  LET s0 == [s EXCEPT !.cancelled = @ \ {i}, !.pc[i] = "done", !.cur[i] = 0]
  IN  Suspend(
        CASE s.pc[i] \in {"start", "getwait"} -> s0
          [] s.pc[i] = "getwoken" ->
               IF s.database_queue # <<>> THEN WakeGetters(s0, 1) ELSE s0
          [] s.pc[i] = "lockwait" -> IF s.locked THEN s0 ELSE WakeLock(s0)
          [] s.pc[i] = "lockwoken" ->
               WakeLock([s0 EXCEPT !.lockW = Without(@, {i})])
          [] s.pc[i] = "indexing" -> Release(Rollback(s0)))

(***************************************************************************)
(* The crawl of the main program as a state machine.                       *)
(***************************************************************************)
MainRunning(t) == mn.ready # <<>> /\ Head(mn.ready) = t

InitMain ==
  /\ InitCrawlerVars
  /\ last = NoOp
  /\ db = EmptyDB
  /\ calls = 0
  /\ sup = NoSup
  /\ mn \in {InitMainState(n, m, wld, page_count) :
               n \in 1..MaxWorkers, m \in 1..MaxIndexers,
               wld \in 1..Len(Worlds), page_count \in 1..MaxPageCount}
  /\ am = NoMap

\* the loop runs crawl task w, which was not cancelled
CrawlStep(w) ==
  /\ MainRunning(w) /\ w \notin mn.cancelled
  /\ mn' = CrawlRun(mn, w)
  /\ last' = RunMark

\* the loop runs crawl task w, which gets CancelledError
CrawlCancelStep(w) ==
  /\ MainRunning(w) /\ w \in mn.cancelled
  /\ mn' = CrawlCancelled(mn, w)
  /\ last' = RunMark

\* the fetch of crawl task w completes
CrawlFetched(w) ==
  /\ mn.pc[w] = "fetch" /\ w \notin Range(mn.ready)
  /\ mn' = [mn EXCEPT !.ready = Append(@, w)]
  /\ last' = IOMark

\* the loop runs the bridge (or the abort of the TaskGroup it caused)
BridgeStep ==
  /\ MainRunning(Bridge)
  /\ \E order \in Orders(CrawlTasks(mn) \cup IndexTasks(mn)) :
       mn' = BridgeRun(mn, order)
  /\ last' = RunMark

\* the loop runs index task i, which was not cancelled
IndexStep(i) ==
  /\ MainRunning(i) /\ i \notin mn.cancelled
  /\ mn' = IndexRun(mn, i)
  /\ last' = RunMark

\* the loop runs index task i, which gets CancelledError
IndexCancelStep(i) ==
  /\ MainRunning(i) /\ i \in mn.cancelled
  /\ mn' = IndexCancelled(mn, i)
  /\ last' = RunMark

\* the database has done the work of index task i
IndexWritten(i) ==
  /\ mn.pc[i] = "indexing" /\ i \notin Range(mn.ready)
  /\ mn' = [DatabaseIndexPage(mn, i) EXCEPT !.ready = Append(@, i)]
  /\ last' = IOMark

NextMain ==
  /\ \/ \E w \in CrawlTasks(mn) : CrawlStep(w)
     \/ \E w \in CrawlTasks(mn) : CrawlCancelStep(w)
     \/ \E w \in CrawlTasks(mn) : CrawlFetched(w)
     \/ BridgeStep
     \/ \E i \in IndexTasks(mn) : IndexStep(i)
     \/ \E i \in IndexTasks(mn) : IndexCancelStep(i)
     \/ \E i \in IndexTasks(mn) : IndexWritten(i)
  /\ UNCHANGED <<crawlerVars, storeVars, supVars, mapVars>>

SpecMain == InitMain /\ [][NextMain]_vars

\* The event loop runs the first ready task whenever there is one; every
\* fetch and every database operation completes.
MainLoopTurn == mn.ready # <<>> /\ last' = RunMark

MainFetchCompletes(w) ==
  w \in CrawlTasks(mn) /\ CrawlFetched(w) /\ UNCHANGED <<crawlerVars, storeVars, supVars, mapVars>>

MainWriteCompletes(i) ==
  i \in IndexTasks(mn) /\ IndexWritten(i) /\ UNCHANGED <<crawlerVars, storeVars, supVars, mapVars>>

SpecMainFair ==
  /\ SpecMain
  /\ WF_last(MainLoopTurn)
  /\ \A w \in 1..MaxWorkers : WF_vars(MainFetchCompletes(w))
  /\ \A i \in (MaxWorkers + 1)..(MaxWorkers + MaxIndexers) : WF_vars(MainWriteCompletes(i))

(***************************************************************************)
(* The crawl of one worker: dequeue, fetch, enqueue the outbound links     *)
(* (ignore_visited), hand the result on, until the queue is empty or the   *)
(* bridge raises.  crawl() and crawl_to_index_bridge() with                *)
(* request_concurrency = 1 alternate in exactly this way.                  *)
(***************************************************************************)
RECURSIVE SequentialCrawl(_, _, _, _)
SequentialCrawl(wld, q, v, out) ==
  LET d == dequeue(q, v)
      r == enqueue_many(d.queue, d.visited, Outlinks(wld, d.url), TRUE)
  IN  IF d.exc # "none" \/ r.exc # "none" THEN out
      ELSE SequentialCrawl(wld, r.queue, d.visited, Append(out, d.url))

\* the order of the results a single-worker crawl of the world hands on
SequentialOrder(wld) ==
  SequentialCrawl(wld, enqueue_many(<<>>, {}, Worlds[wld].start, FALSE).queue,
                  {}, <<>>)

\* every task of the TaskGroup has ended
MainDone == \A t \in MainTasks : mn.pc[t] \in {"done", "failed", "off"}

\* C2: whatever request_concurrency and the timing of the fetches, the URLs
\* whose results the bridge hands to the index tasks follow the order of a
\* single-worker crawl of the same pages from the same start URLs, and are
\* that whole sequence once the bridge has ended.
C2_OrderIsSequential ==
  /\ IsPrefix(mn.emitted, SequentialOrder(mn.world))
  /\ mn.pc[Bridge] \in {"done", "failed"} => mn.emitted = SequentialOrder(mn.world)

\* C2 witness: two crawl tasks, the bridge has ended after handing on three
\* results whose fetches finished in another order than they were dequeued.
C2_Witness ==
  /\ mn # NoMain
  /\ mn.n >= 2 /\ mn.pc[Bridge] = "done"
  /\ Len(mn.emitted) >= 3
  /\ ~IsPrefix(mn.finished, mn.dequeued)

\* C3: once every task has ended, each URL that was dequeued has a page in
\* the store, or its CrawlError was handed on, or it is back in the queue.
C3_EveryURLAccounted ==
  MainDone =>
    \A u \in Range(mn.dequeued) :
      \/ u \in mn.indexed
      \/ Worlds[mn.world].kind[u] = "err" /\ u \in Range(mn.emitted)
      \/ u \in Range(mn.queue)

\* the crawl is drained: every task has ended without a failure and a result
\* was handed on for every URL of the sequential crawl
MainDrained ==
  /\ MainDone /\ ~mn.failed
  /\ Range(mn.emitted) = Range(SequentialOrder(mn.world))

\* C4: with at least one crawl task, finitely many pages and every fetch
\* completing, the crawl is eventually drained and every task has ended.
C4_DrainsAndTerminates == <>MainDrained

\* C5: once pages_crawled has reached page_count no crawl task dequeues
\* another URL.
C5_NoDequeueAfterPageCount ==
  [][(mn.page_count > 0 /\ mn.pages_crawled >= mn.page_count)
       => mn'.dequeued = mn.dequeued]_vars

\* the index tasks that are inside `async with database_lock`
InTransaction == {i \in IndexTasks(mn) : mn.pc[i] = "indexing"}

\* C14: at most one index task is inside its index_page transaction; the
\* pages are committed in the order in which their transactions took
\* database_lock; and with one index task they are committed in the order in
\* which the bridge handed on their results.
C14_WritesSerialized ==
  /\ Cardinality(InTransaction) <= 1
  /\ mn.committed = SelectIn(mn.acquired, Range(mn.committed))
  /\ mn.m = 1 => mn.committed = SelectIn(mn.emitted, Range(mn.committed))

\* C14 witness: with two index tasks, one is in its transaction while the
\* other waits for the lock, and two pages were committed before.
C14_Witness ==
  /\ mn # NoMain
  /\ mn.m = 2
  /\ Cardinality(InTransaction) = 1
  /\ \E i \in IndexTasks(mn) : mn.pc[i] = "lockwait"
  /\ Len(mn.committed) >= 1

\* the URLs whose result the bridge has taken from crawl_queue
BridgeTaken ==
  {u \in Range(mn.finished) :
     \A i \in 1..Len(mn.crawl_queue \o <<mn.held>>) :
       (mn.crawl_queue \o <<mn.held>>)[i].url # u}

\* the step of the bridge that hands on nothing but CrawlErrors
ForwardsOnlyErrors ==
  /\ MainRunning(Bridge) /\ last'.op = "run"
  /\ mn'.emitted # mn.emitted
  /\ \A i \in (Len(mn.emitted) + 1)..Len(mn'.emitted) :
       Worlds[mn.world].kind[mn'.emitted[i]] = "err"

\* C29: the consumer acts on each resolved value by its kind.  A QueueEmpty
\* is never handed on; a CrawlError is handed on and nothing is enqueued for
\* it; a result is handed on and its outbound links are enqueued; every
\* value that is not a QueueEmpty is handed on exactly once.
C29_ConsumerActsByKind ==
  /\ [](/\ Range(mn.emitted) \subseteq Range(mn.dequeued)
        /\ NoDup(mn.emitted)
        /\ BridgeTaken \subseteq Range(mn.emitted))
  /\ [][ForwardsOnlyErrors => mn'.queue = mn.queue]_vars

\* the CrawlError of URL u was handed on to the index tasks
ErrorForwarded(u) ==
  /\ mn # NoMain
  /\ Worlds[mn.world].kind[u] = "err"
  /\ u \in Range(mn.emitted)

\* the step in which crawl task w gets a CrawlError from its fetch
GetsCrawlError(w) ==
  /\ MainRunning(w) /\ last'.op = "run"
  /\ mn.pc[w] = "fetch" /\ w \notin mn.cancelled
  /\ Worlds[mn.world].kind[CrawledURL(mn, w)] = "err"

\* crawl() goes on after a CrawlError: with a URL queued and the crawl on,
\* the same step dequeues the next URL
WorkerContinues ==
  \A w \in CrawlTasks(mn) :
    GetsCrawlError(w) /\ mn.crawling /\ dequeue(mn.queue, mn.visited).exc = "none" =>
      /\ Len(mn'.dequeued) = Len(mn.dequeued) + 1
      /\ mn'.pc[w] = "fetch"

\* the crawl is drained and every index task has read its queue to the end
DrainedAndConsumed ==
  /\ MainDrained
  /\ mn.database_queue = <<>>
  /\ \A i \in IndexTasks(mn) : mn.pc[i] = "done"

C36_OutlinksSupportedNoAbort ==
  mn # NoMain =>
    /\ \A u \in Range(mn.finished) :
         \A l \in Range(Outlinks(mn.world, u)) : scheme(l) \in SUPPORTED_SCHEMES
    /\ ~mn.failed

\* the transactions started (database_lock taken) that were not committed
NotCommitted == Len(mn.acquired) - Len(mn.committed)

\* C37: never more than page_count page transactions are committed: a
\* commit is issued only while the counter is below page_count, and when an
\* index task starts its transaction, or ends one, the connection holds no
\* uncommitted row of an earlier one.
C37_CommittedWithinPageCount ==
  [][ mn # NoMain =>
        /\ Len(mn'.committed) <= mn.page_count
        /\ Cardinality(mn'.pages) <= mn.page_count
        /\ mn'.pages_crawled <= mn.page_count
        /\ mn'.committed # mn.committed => mn.pages_crawled < mn.page_count
        /\ mn'.acquired # mn.acquired => mn'.uncommitted = {}
        /\ InTransaction = {} => mn.uncommitted = {} ]_vars

\* C37 witness: page_count transactions were committed, a later one wrote
\* its page and ended without a commit, and the next one has started, with
\* two index tasks.
C37_Witness ==
  /\ mn # NoMain /\ mn.m = 2
  /\ Len(mn.committed) = mn.page_count
  /\ NotCommitted >= 2
  /\ Cardinality(InTransaction) = 1
  /\ mn.pages = Range(mn.committed)

\* C38: the written-pages counter counts only the index_page calls that
\* stored a page: every count and every commit goes with one page stored, so
\* a call the mod_time guard rejects takes nothing of page_count.
C38_CounterCountsRealWrites ==
  mn # NoMain =>
    /\ mn.pages_crawled = Cardinality(mn.pages)
    /\ Len(mn.committed) = Cardinality(mn.pages)

\* what holds: every transaction counted is a committed one, and a crawl
\* where no two URLs end at the same final URL counts only pages stored
CountsCommits ==
  mn # NoMain =>
    /\ mn.pages_crawled = Len(mn.committed)
    /\ (\A u, v \in Pages : Final(mn.world, u) = Final(mn.world, v) => u = v)
         => mn.pages_crawled = Cardinality(mn.pages)

(***************************************************************************)
(* The SQLite store (database/scheme.py): url_ids and word_ids.            *)
(*                                                                         *)
(* In SpecScheme db is [urls, words]: the contents of main.urls and        *)
(* main.words in rowid order.                                              *)
(***************************************************************************)
\* the contents are 1..NumContents
NumContents == 2

\* the longest sequence handed to url_ids / word_ids
MaxIds == 3

\* INSERT OR IGNORE INTO t(content) VALUES (?), once per value: content is
\* unique in the table, a value already stored is ignored, a new one gets the
\* next rowid
InsertOrIgnore(rows, vals) == DictUpdate(rows, vals)

RECURSIVE OrderByCase(_, _, _)
\* the rowids of the set S in ascending order of
\* CASE content WHEN vals[1] THEN 0 WHEN vals[2] THEN 1 ... END: the first
\* WHEN equal to the content gives the key
OrderByCase(S, rows, vals) ==
  IF S = {} THEN <<>>
  ELSE LET r == CHOOSE x \in S :
                  \A y \in S : FirstIndex(vals, rows[x]) <= FirstIndex(vals, rows[y])
       IN  <<r>> \o OrderByCase(S \ {r}, rows, vals)

\* SELECT rowid FROM t WHERE content IN (vals) ORDER BY CASE content ... END
SelectRowids(rows, vals) ==
  OrderByCase({r \in 1..Len(rows) : rows[r] \in Range(vals)}, rows, vals)

\* Scheme.url_ids / Scheme.word_ids on a table: the outcome [ret, rows]
get_ids(rows, contents) ==
  IF contents = <<>> THEN [ret |-> <<>>, rows |-> rows]
  ELSE LET rows2 == InsertOrIgnore(rows, contents)
       IN  [ret |-> SelectRowids(rows2, contents), rows |-> rows2]

SchemeInputs == SeqsUpTo(1..NumContents, MaxIds)

InitScheme ==
  /\ InitCrawlerVars
  /\ last = NoOp
  /\ db = [urls |-> <<>>, words |-> <<>>]
  /\ calls = 0
  /\ sup = NoSup
  /\ mn = NoMain
  /\ am = NoMap

url_ids(contents) ==
  LET r == get_ids(db.urls, contents)
  IN  /\ calls < MaxCalls
      /\ calls' = calls + 1
      /\ db' = [db EXCEPT !.urls = r.rows]
      /\ last' = [op |-> "url_ids", arg |-> contents, ret |-> r.ret, before |-> db.urls]

word_ids(contents) ==
  LET r == get_ids(db.words, contents)
  IN  /\ calls < MaxCalls
      /\ calls' = calls + 1
      /\ db' = [db EXCEPT !.words = r.rows]
      /\ last' = [op |-> "word_ids", arg |-> contents, ret |-> r.ret, before |-> db.words]

NextScheme ==
  /\ \/ \E contents \in SchemeInputs : url_ids(contents)
     \/ \E contents \in SchemeInputs : word_ids(contents)
  /\ UNCHANGED <<crawlerVars, supVars, mainVars, mapVars>>

SpecScheme == InitScheme /\ [][NextScheme]_vars

\* the table the last call worked on
LastTable == IF last.op = "url_ids" THEN db.urls ELSE db.words

IsIdsCall == last.op \in {"url_ids", "word_ids"}

\* the call returned the id of each input element at its place, created one
\* row for each content not stored before and no other, and a second call
\* with the same input returns the same ids and creates nothing
IdsAsClaimed ==
  /\ Len(last.ret) = Len(last.arg)
  /\ \A i \in 1..Len(last.arg) : LastTable[last.ret[i]] = last.arg[i]
  /\ NoDup(LastTable)
  /\ IsPrefix(last.before, LastTable)
  /\ Range(LastTable) = Range(last.before) \cup Range(last.arg)
  /\ get_ids(LastTable, last.arg) = [ret |-> last.ret, rows |-> LastTable]

\* C15: url_ids and word_ids return one id per input element, output[i]
\* being the id of input[i], create rows only for the contents not yet
\* stored, and are idempotent.
C15_OneIdPerInputElement == IsIdsCall => IdsAsClaimed

\* What the code keeps: the claim holds for every input without a repeated
\* element; for any input the result is the ids of the distinct contents in
\* the order of their first occurrence.
IdsOfDistinctContents ==
  IsIdsCall =>
    /\ NoDup(last.arg) => IdsAsClaimed
    /\ Len(last.ret) = Len(Dedup(last.arg))
    /\ \A i \in 1..Len(last.ret) : LastTable[last.ret[i]] = Dedup(last.arg)[i]

(***************************************************************************)
(* _util.a_eager_map and _util.a_pool_imap on the asyncio event loop.      *)
(* The generator runs in the task of its caller (GenTask); it starts       *)
(* submit() in a TaskGroup; submit() puts one awaitable per input item     *)
(* into an asyncio.Queue of max_size slots and then the Ellipsis; the      *)
(* generator takes the awaitables out of the queue, awaits each and yields *)
(* its result.  In a_eager_map the awaitable of item k is the task         *)
(* execute(k), limited by a BoundedSemaphore; in a_pool_imap it is a       *)
(* future that the pool's callback resolves.  The input items are 1..n,    *)
(* the result of item k is k, and the items of `fails` raise.              *)
(***************************************************************************)
MaxItems == 3

MaxConcurrency == 2

MaxSize == 1

\* the task that iterates the generator
GenTask == 0

\* the task of submit()
Submitter == MaxItems + 1

\* TaskGroup._on_task_done of the submit task, scheduled with call_soon
TgCallback == MaxItems + 2

\* the `...` that submit() puts last
Ellipsis == 0

InitMapState(kind, n, concurrency, max_size, fails) ==
  [ kind    |-> kind,
    n       |-> n,
    conc    |-> concurrency,
    cap     |-> max_size,
    fails   |-> fails,
    ready   |-> <<GenTask>>,
    pc      |-> [t \in 0..Submitter |-> IF t = GenTask THEN "init" ELSE "none"],
    cancel  |-> {},         \* the tasks that will get CancelledError
    next    |-> 1,          \* the item submit() is at
    st      |-> [k \in 1..n |-> "none"],   \* the awaitable of each item
    applied |-> {},         \* the items handed to pool.apply_async
    sem     |-> concurrency,
    semW    |-> <<>>,       \* Semaphore._waiters
    q       |-> <<>>,       \* the queue
    putW    |-> "none",     \* the putter future of submit()
    getW    |-> "none",     \* the getter future of the generator
    tg      |-> FALSE,      \* the submit task is in TaskGroup._tasks
    held    |-> 0,          \* the item the generator awaits
    left    |-> <<>>,       \* the awaitables the final gather waits for
    exc     |-> "none",     \* what is propagating out of the generator
    yielded |-> <<>>,       \* history: the results yielded
    finished |-> <<>>,      \* history: the items in the order they completed
    outcome |-> "none",     \* how the generator ended
    raisedItem |-> 0 ]

\* Queue.full
QueueFull(s) == s.cap > 0 /\ Len(s.q) >= s.cap

\* Semaphore.locked
SemLocked(s) ==
  s.sem = 0 \/ \E i \in 1..Len(s.semW) : s.semW[i].st # "cancelled"

\* Semaphore._wake_up_next: the first waiter that is not done gets the permit
SemWakeUpNext(s) ==
  IF \E i \in 1..Len(s.semW) : s.semW[i].st = "wait"
  THEN LET i == CHOOSE i \in 1..Len(s.semW) :
                  /\ s.semW[i].st = "wait"
                  /\ \A j \in 1..(i - 1) : s.semW[j].st # "wait"
       IN  [s EXCEPT !.sem = @ - 1, !.semW[i].st = "woken",
                     !.ready = Append(@, s.semW[i].t)]
  ELSE s

\* Semaphore.release
SemRelease(s) == SemWakeUpNext([s EXCEPT !.sem = @ + 1])

\* the waiter of task t, and Semaphore._waiters without it
SemWaiter(s, t) == s.semW[CHOOSE i \in 1..Len(s.semW) : s.semW[i].t = t]

SemRemove(s, t) == [s EXCEPT !.semW = SelectSeq(@, LAMBDA w : w.t # t)]

\* Semaphore.acquire resumed: the waiter is removed; a waiter that was woken
\* and got CancelledError gives the permit back
SemResumed(s, t, cancelled) ==
  LET w  == SemWaiter(s, t)
      s1 == SemRemove(s, t)
  IN  IF cancelled
      THEN IF w.st = "woken" THEN SemRelease(s1) ELSE s1
      ELSE IF s1.sem > 0 THEN SemWakeUpNext(s1) ELSE s1

\* Queue._wakeup_next(self._putters) and (self._getters)
WakePutter(s) ==
  IF s.putW = "wait"
  THEN [s EXCEPT !.putW = "woken", !.ready = Append(@, Submitter)]
  ELSE s

WakeGetter(s) ==
  IF s.getW = "wait"
  THEN [s EXCEPT !.getW = "woken", !.ready = Append(@, GenTask)]
  ELSE s

\* Queue.put_nowait
put_nowait_mut_overtake(s, item) ==
  WakeGetter([s EXCEPT !.q = IF @ = <<>> THEN <<item>>
                            ELSE SubSeq(@, 1, Len(@) - 1) \o <<item, @[Len(@)]>>])

put_nowait(s, item) == WakeGetter([s EXCEPT !.q = Append(@, item)])

\* Task.cancel: a task that waits for a future that is not done has the
\* future cancelled and becomes ready; a task that is ready gets the
\* CancelledError when it runs; a task that is done is left alone
TaskCancel(s, t) ==
  IF s.pc[t] \in {"none", "done"} THEN s
  ELSE LET s1 == [s EXCEPT !.cancel = @ \cup {t}]
       IN  IF t \in Range(s.ready) THEN s1
           ELSE CASE s.pc[t] = "sem" ->
                       [s1 EXCEPT !.ready = Append(@, t),
                                  !.semW = [i \in 1..Len(s.semW) |->
                                              IF s.semW[i].t = t
                                              THEN [s.semW[i] EXCEPT !.st = "cancelled"]
                                              ELSE s.semW[i]]]
                  [] s.pc[t] \in {"put", "putend"} ->
                       [s1 EXCEPT !.ready = Append(@, t), !.putW = "cancelled"]
                  [] OTHER -> [s1 EXCEPT !.ready = Append(@, t)]

\* the awaitables of `items` that are not done
MapPending(s, items) == {k \in Range(items) : s.st[k] = "pending"}

\* the awaitable of item k is done: whoever awaits it is woken
Completed(s, k, st) ==
  LET s1 == [s EXCEPT !.st[k] = st, !.finished = Append(@, k)]
  IN  IF \/ s1.pc[GenTask] = "await" /\ s1.held = k
         \/ s1.pc[GenTask] = "gather" /\ k \in Range(s1.left)
                                      /\ MapPending(s1, s1.left) = {}
      THEN [s1 EXCEPT !.ready = Append(@, GenTask)]
      ELSE s1

\* what the computation of item k ends with
Outcome(s, k) == IF k \in s.fails THEN "err" ELSE "ok"

(***************************************************************************)
(* submit(): one step of the task runs it up to its next suspension.       *)
(***************************************************************************)
RECURSIVE SubLoop(_)

\* the submit task ends: its done callback is scheduled
SubDone(s) ==
  [s EXCEPT !.pc[Submitter] = "done", !.ready = Append(@, TgCallback)]

\* `finally: await queue.put(...)`
SubFinally(s) ==
  IF QueueFull(s) THEN [s EXCEPT !.putW = "wait", !.pc[Submitter] = "putend"]
  ELSE SubDone(put_nowait(s, Ellipsis))

\* the awaitable of the item is put: a_eager_map leaves the `async with`,
\* a_pool_imap hands the item to the pool; then the next item
SubAfterPut(s) ==
  LET k  == s.next
      s1 == put_nowait(s, k)
      s2 == IF s.kind = "eager" THEN SemRelease(s1)
            ELSE [s1 EXCEPT !.applied = @ \cup {k}]
  IN  SubLoop([s2 EXCEPT !.next = k + 1])

\* `await queue.put(awaitable)`
SubPut(s) ==
  IF QueueFull(s) THEN [s EXCEPT !.putW = "wait", !.pc[Submitter] = "put"]
  ELSE SubAfterPut(s)

\* `task = create_task(execute(item))` inside the `async with`
SubCreate(s) ==
  SubPut([s EXCEPT !.st[s.next] = "pending", !.pc[s.next] = "start",
                   !.ready = Append(@, s.next)])

\* `async for item in iterable`
SubLoop(s) ==
  IF s.next > s.n THEN SubFinally(s)
  ELSE IF s.kind = "pool" THEN SubPut([s EXCEPT !.st[s.next] = "pending"])
  ELSE IF SemLocked(s)
  THEN [s EXCEPT !.semW = Append(@, [t |-> Submitter, st |-> "wait"]),
                 !.pc[Submitter] = "sem"]
  ELSE SubCreate([s EXCEPT !.sem = @ - 1])

\* submit() resumed by the loop
SubRun(s) ==
  CASE s.pc[Submitter] = "start" -> SubLoop(s)
    [] s.pc[Submitter] = "sem" -> SubCreate(SemResumed(s, Submitter, FALSE))
    [] s.pc[Submitter] = "put" -> SubPut([s EXCEPT !.putW = "none"])
    [] s.pc[Submitter] = "putend" -> SubFinally([s EXCEPT !.putW = "none"])

\* submit() resumed with CancelledError: a task that never ran just ends;
\* in the put of an item the task of the item is cancelled and the semaphore
\* released; everywhere inside the try the `finally` puts the Ellipsis
SubCancelled(s) ==
  LET s0 == [s EXCEPT !.cancel = @ \ {Submitter}]
      s1 == [s0 EXCEPT !.putW = "none"]
  IN  CASE s.pc[Submitter] = "start" -> SubDone(s0)
        [] s.pc[Submitter] = "sem" -> SubFinally(SemResumed(s0, Submitter, TRUE))
        [] s.pc[Submitter] = "put" ->
             IF s.kind = "eager" THEN SubFinally(SemRelease(TaskCancel(s1, s.next)))
             ELSE SubFinally(s1)
        [] s.pc[Submitter] = "putend" -> SubDone(s1)

(***************************************************************************)
(* execute(item) of a_eager_map.                                           *)
(***************************************************************************)
\* the `async with` is left and the task ends with the outcome of func
ExecDone(s, k) ==
  Completed(SemRelease([s EXCEPT !.pc[k] = "done"]), k, Outcome(s, k))

\* `await func(item)`: func ends without suspending (imm) or waits
ExecFunc(s, k, imm) ==
  IF imm THEN ExecDone(s, k) ELSE [s EXCEPT !.pc[k] = "func"]

ExecRun(s, k, imm) ==
  CASE s.pc[k] = "start" ->
         IF SemLocked(s)
         THEN [s EXCEPT !.semW = Append(@, [t |-> k, st |-> "wait"]),
                        !.pc[k] = "sem"]
         ELSE ExecFunc([s EXCEPT !.sem = @ - 1], k, imm)
    [] s.pc[k] = "sem" -> ExecFunc(SemResumed(s, k, FALSE), k, imm)
    [] s.pc[k] = "func" -> ExecDone(s, k)

\* execute(item) resumed with CancelledError
ExecCancelled(s, k) ==
  LET s0 == [s EXCEPT !.cancel = @ \ {k}, !.pc[k] = "done"]
  IN  CASE s.pc[k] = "start" -> Completed(s0, k, "cancelled")
        [] s.pc[k] = "sem" -> Completed(SemResumed(s0, k, TRUE), k, "cancelled")
        [] s.pc[k] = "func" -> Completed(SemRelease(s0), k, "cancelled")

(***************************************************************************)
(* The generator: the TaskGroup, the loop over a_iter_queue, the final     *)
(* gather.                                                                 *)
(***************************************************************************)
RECURSIVE GenGet(_, _)

\* the generator ends: StopAsyncIteration, the exception group of the failed
\* item, or GeneratorExit
GenEnd(s) ==
  [s EXCEPT !.pc[GenTask] = "done", !.left = <<>>,
            !.outcome = CASE s.exc = "none" -> "stop"
                          [] s.exc = "err" -> "raised"
                          [] s.exc = "closed" -> "closed"]

\* `finally: await gather(*iter_queue(queue) without ...)`
GenFinally(s) ==
  LET items == SelectSeq(s.q, LAMBDA x : x # Ellipsis)
      s1    == WakePutter([s EXCEPT !.q = <<>>])
  IN  IF items = <<>> THEN GenEnd(s1)
      ELSE [s1 EXCEPT !.left = items, !.pc[GenTask] = "gather",
                      !.ready = IF MapPending(s1, items) = {}
                                THEN Append(@, GenTask) ELSE @]

\* TaskGroup.__aexit__: an exception in the body cancels the submit task;
\* the group waits until the submit task is done
GenExitGroup(s, exc) ==
  LET s1 == IF exc # "none" THEN TaskCancel([s EXCEPT !.exc = exc], Submitter)
            ELSE s
  IN  IF s1.tg THEN [s1 EXCEPT !.pc[GenTask] = "aexit"] ELSE GenFinally(s1)

\* `yield`: the caller asks for the next result at once (imm) or after it
\* was suspended itself
GenYield(s, k, imm) ==
  LET s1 == [s EXCEPT !.yielded = Append(@, k), !.held = 0]
  IN  IF imm THEN GenGet(s1, imm) ELSE [s1 EXCEPT !.pc[GenTask] = "yielded"]

\* `await item`
GenAwait(s, k, imm) ==
  CASE s.st[k] = "pending" -> [s EXCEPT !.held = k, !.pc[GenTask] = "await"]
    [] s.st[k] = "ok" -> GenYield(s, k, imm)
    [] s.st[k] = "err" ->
         GenExitGroup([s EXCEPT !.held = 0, !.raisedItem = k], "err")

\* a_iter_queue: `await queue.get()`, then the body of the `async for`
GenGet(s, imm) ==
  IF s.q = <<>> THEN [s EXCEPT !.getW = "wait", !.pc[GenTask] = "get"]
  ELSE LET item == Head(s.q)
           s1   == WakePutter([s EXCEPT !.q = Tail(@)])
       IN  IF item = Ellipsis THEN GenExitGroup(s1, "none")
           ELSE GenAwait(s1, item, imm)

\* the generator resumed by the loop
GenRun(s, imm) ==
  CASE s.pc[GenTask] = "init" ->
         GenGet([s EXCEPT !.tg = TRUE, !.pc[Submitter] = "start",
                          !.ready = Append(@, Submitter)], imm)
    [] s.pc[GenTask] = "get" -> GenGet([s EXCEPT !.getW = "none"], imm)
    [] s.pc[GenTask] = "await" -> GenAwait(s, s.held, imm)
    [] s.pc[GenTask] = "resume" -> GenGet(s, imm)
    [] s.pc[GenTask] = "closing" -> GenExitGroup(s, "closed")
    [] s.pc[GenTask] = "aexit" -> GenFinally(s)
    [] s.pc[GenTask] = "gather" -> GenEnd(s)

\* the running task leaves the head of the ready queue
Pop(s) == [s EXCEPT !.ready = Tail(@)]

(***************************************************************************)
(* The async map helpers as a state machine.                               *)
(***************************************************************************)
MapRunning(t) == am.ready # <<>> /\ Head(am.ready) = t

InitMap ==
  /\ InitCrawlerVars
  /\ last = NoOp
  /\ db = EmptyDB
  /\ calls = 0
  /\ sup = NoSup
  /\ mn = NoMain
  /\ am \in {InitMapState("eager", n, c, m, fails) :
               n \in 0..MaxItems, c \in 1..MaxConcurrency, m \in 0..MaxSize,
               fails \in SUBSET (1..MaxItems)}
            \cup {InitMapState("pool", n, 1, m, fails) :
                    n \in 0..MaxItems, m \in 0..MaxSize,
                    fails \in SUBSET (1..MaxItems)}
  /\ am.fails \subseteq 1..am.n

\* the loop runs the generator
GenStep ==
  /\ MapRunning(GenTask)
  /\ \E imm \in BOOLEAN : am' = Pop(GenRun(am, imm))
  /\ last' = RunMark

\* the loop runs submit(), which was not cancelled
SubStep ==
  /\ MapRunning(Submitter) /\ Submitter \notin am.cancel
  /\ am' = Pop(SubRun(am))
  /\ last' = RunMark

\* the loop runs submit(), which gets CancelledError
SubCancelStep ==
  /\ MapRunning(Submitter) /\ Submitter \in am.cancel
  /\ am' = Pop(SubCancelled(am))
  /\ last' = RunMark

\* the loop runs execute(k), which was not cancelled
ExecStep(k) ==
  /\ MapRunning(k) /\ k \notin am.cancel
  /\ \E imm \in BOOLEAN : am' = Pop(ExecRun(am, k, imm))
  /\ last' = RunMark

\* the loop runs execute(k), which gets CancelledError
ExecCancelStep(k) ==
  /\ MapRunning(k) /\ k \in am.cancel
  /\ am' = Pop(ExecCancelled(am, k))
  /\ last' = RunMark

\* the loop runs the done callback of the submit task: the TaskGroup forgets
\* the task and wakes the generator that waits in __aexit__
TgStep ==
  /\ MapRunning(TgCallback)
  /\ am' = Pop([am EXCEPT !.tg = FALSE,
                          !.ready = IF am.pc[GenTask] = "aexit"
                                    THEN Append(@, GenTask) ELSE @])
  /\ last' = RunMark

\* func(k) of a_eager_map is through waiting: execute(k) becomes ready
FuncDone(k) ==
  /\ am.kind = "eager" /\ am.pc[k] = "func"
  /\ k \notin Range(am.ready) /\ k \notin am.cancel
  /\ am' = [am EXCEPT !.ready = Append(@, k)]
  /\ last' = IOMark

\* the pool is through with item k: the callback resolves the future
PoolDone(k) ==
  /\ am.kind = "pool" /\ k \in am.applied /\ am.st[k] = "pending"
  /\ am' = Completed(am, k, Outcome(am, k))
  /\ last' = IOMark

\* the caller, suspended since the last result, asks for the next one
MapCallerNext ==
  /\ am.pc[GenTask] = "yielded"
  /\ am' = [am EXCEPT !.pc[GenTask] = "resume", !.ready = Append(@, GenTask)]
  /\ last' = CallMark

\* the caller closes the generator instead: GeneratorExit at the yield
MapCallerClose ==
  /\ am.pc[GenTask] = "yielded"
  /\ am' = [am EXCEPT !.pc[GenTask] = "closing", !.ready = Append(@, GenTask)]
  /\ last' = CallMark

NextMap ==
  /\ \/ GenStep
     \/ SubStep
     \/ SubCancelStep
     \/ \E k \in 1..MaxItems : ExecStep(k)
     \/ \E k \in 1..MaxItems : ExecCancelStep(k)
     \/ TgStep
     \/ \E k \in 1..MaxItems : FuncDone(k)
     \/ \E k \in 1..MaxItems : PoolDone(k)
     \/ MapCallerNext
     \/ MapCallerClose
  /\ UNCHANGED <<crawlerVars, storeVars, supVars, mainVars>>

SpecMap == InitMap /\ [][NextMap]_vars

\* The event loop runs the first ready task whenever there is one, every
\* computation ends, and a caller that holds a result acts on it.
MapLoopTurn == am.ready # <<>> /\ last' = RunMark

Computed(k) ==
  (FuncDone(k) \/ PoolDone(k))
    /\ UNCHANGED <<crawlerVars, storeVars, supVars, mainVars>>

MapCallerActs ==
  (MapCallerNext \/ MapCallerClose)
    /\ UNCHANGED <<crawlerVars, storeVars, supVars, mainVars>>

SpecMapFair ==
  /\ SpecMap
  /\ WF_last(MapLoopTurn)
  /\ WF_vars(MapCallerActs)
  /\ \A k \in 1..MaxItems : WF_vars(Computed(k))

\* the input items in the order submit() takes them from the iterable
Submitted == [k \in 1..am.n |-> k]

\* C16: a_eager_map and a_pool_imap yield the results in the order of the
\* input items, whatever the order in which the computations complete and
\* whatever the concurrency and the queue size.
C16_ResultsInInputOrder == IsPrefix(am.yielded, Submitted)

\* every item was yielded although a later item completed before an earlier one
C16_Witness ==
  /\ am.outcome = "stop" /\ am.n = MaxItems /\ am.yielded = Submitted
  /\ am.finished # Submitted


\* the first input item whose computation raises (n + 1 when none does)
FirstFailure ==
  IF am.fails = {} THEN am.n + 1
  ELSE CHOOSE k \in am.fails : \A j \in am.fails : k <= j

\* the safety half of C17: no result of the first failing item or of a later
\* one is yielded, and an exception that reaches the consumer is that of the
\* first failing item and comes after the results of all items before it
ExceptionInOrder ==
  /\ \A i \in 1..Len(am.yielded) : am.yielded[i] < FirstFailure
  /\ am.outcome = "raised" =>
       /\ am.raisedItem = FirstFailure
       /\ am.yielded = [k \in 1..(FirstFailure - 1) |-> k]

\* C17: the exception of item k is propagated to the consumer when item k
\* is accessed: the results of the items before k are yielded in order, then
\* the exception is raised, and no result of a later item is yielded.  For a
\* consumer that does not close the generator the exception of the first
\* failing item does reach it.
C17_ExceptionAtFailedItem ==
  /\ []ExceptionInOrder
  /\ [](am.fails # {} => <>(am.outcome = "raised" \/ am.exc = "closed"))

\* the generator is stuck for good in TaskGroup.__aexit__ with the exception
\* of the failed item: the cancelled submit() waits in `queue.put(...)`
ExceptionNeverRaised ==
  /\ am.exc = "err" /\ am.pc[GenTask] = "aexit" /\ am.ready = <<>>
  /\ am.pc[Submitter] = "putend" /\ QueueFull(am)

\* whenever an item fails and the consumer does not close the generator, the
\* exception reaches the consumer unless the generator gets stuck as above
ExceptionRaisedUnlessStuck ==
  [](am.fails # {} =>
       <>(am.outcome = "raised" \/ am.exc = "closed" \/ ExceptionNeverRaised))

\* the generator has finished its cleanup: it has ended, the submit task
\* has ended, and no awaitable that was put into the queue is left pending
CleanupComplete ==
  /\ am.pc[GenTask] = "done"
  /\ am.pc[Submitter] \in {"none", "done"}
  /\ \A k \in 1..(am.next - 1) : am.st[k] # "pending"

\* C39: when the consumer closes the generator or an item raises, the
\* cleanup of the generator completes whatever max_size is: the submit task
\* ends and no awaitable left in the queue stays pending.
C39_EarlyExitTerminates ==
  [](am.exc # "none" => <>CleanupComplete)

\* with an unbounded queue the cleanup does complete
EarlyExitTerminatesUnbounded ==
  []((am.exc # "none" /\ am.cap = 0) => <>CleanupComplete)

\* the cleanup is stuck for good: the cancelled submit() waits in the
\* `queue.put(...)` of its `finally` for a full queue that nobody reads
CleanupStuck ==
  /\ am.exc # "none" /\ am.pc[GenTask] = "aexit" /\ am.ready = <<>>
  /\ am.pc[Submitter] = "putend" /\ QueueFull(am)

\* a cleanup that does not complete is stuck in this way
EarlyExitTerminatesUnlessStuck ==
  [](am.exc # "none" => <>(CleanupComplete \/ CleanupStuck))

(***************************************************************************)
(* query.lex_query and query.parse_query.  A query is a sequence of        *)
(* characters; a token is [type, value].                                   *)
(***************************************************************************)
MaxQueryLen == 4

\* two letters, the space and the double quote
QueryChars == {"a", "b", " ", "\""}

Queries == SeqsUpTo(QueryChars, MaxQueryLen)

\* str.split(" "): the pieces between the spaces, the empty ones included
RECURSIVE SplitSpace(_)
SplitSpace(text) ==
  IF \A i \in 1..Len(text) : text[i] # " " THEN <<text>>
  ELSE LET i == CHOOSE i \in 1..Len(text) :
                  /\ text[i] = " "
                  /\ \A j \in 1..(i - 1) : text[j] # " "
       IN  <<SubSeq(text, 1, i - 1)>> \o SplitSpace(SubSeq(text, i + 1, Len(text)))

TermToken(value) == [type |-> "term", value |-> value]

PhraseToken(value) == [type |-> "phrase", value |-> value]

\* QueryToken(type="term", value=tk) for tk in pieces
TermTokens(pieces) == [i \in 1..Len(pieces) |-> TermToken(pieces[i])]

\* one round of `for char in query` on m = [tokens, state, token]
LexChar(m, char) ==
  IF m.state = "TERM"
  THEN IF char \in {" ", "\""}
       THEN [tokens |-> IF m.token # <<>> THEN Append(m.tokens, TermToken(m.token))
                        ELSE m.tokens,
             state |-> IF char = "\"" THEN "PHRASE" ELSE "TERM",
             token |-> <<>>]
       ELSE [m EXCEPT !.token = Append(@, char)]
  ELSE IF char = "\""
       THEN [tokens |-> Append(m.tokens, PhraseToken(m.token))
                          \o TermTokens(SplitSpace(m.token)),
             state |-> "TERM",
             token |-> <<>>]
       ELSE [m EXCEPT !.token = Append(@, char)]

RECURSIVE LexLoop(_, _)
LexLoop(m, query) ==
  IF query = <<>> THEN m ELSE LexLoop(LexChar(m, Head(query)), Tail(query))

lex_query(query) ==
  LET m == LexLoop([tokens |-> <<>>, state |-> "TERM", token |-> <<>>], query)
  IN  IF m.token # <<>> THEN Append(m.tokens, TermToken(m.token)) ELSE m.tokens

\* the values of the tokens of one type, in order
RECURSIVE ValuesOf(_, _)
ValuesOf(tokens, type) ==
  IF tokens = <<>> THEN <<>>
  ELSE (IF Head(tokens).type = type THEN <<Head(tokens).value>> ELSE <<>>)
         \o ValuesOf(Tail(tokens), type)

parse_query(tokens) ==
  [terms |-> ValuesOf(tokens, "term"), phrases |-> ValuesOf(tokens, "phrase")]

(***************************************************************************)
(* SpecQuery: queries of up to MaxQueryLen characters are lexed and parsed.*)
(***************************************************************************)
InitQuery ==
  /\ InitCrawlerVars
  /\ last = NoOp
  /\ db = EmptyDB
  /\ calls = 0
  /\ sup = NoSup
  /\ mn = NoMain
  /\ am = NoMap

LexAndParse(query) ==
  /\ last' = [op |-> "query", query |-> query, tokens |-> lex_query(query),
              parsed |-> parse_query(lex_query(query))]
  /\ UNCHANGED storeVars

NextQuery ==
  /\ \E query \in Queries : LexAndParse(query)
  /\ UNCHANGED <<crawlerVars, supVars, mainVars, mapVars>>

SpecQuery == InitQuery /\ [][NextQuery]_vars

\* the words of a text: its space-separated pieces that are not empty
WordsOf(text) == SelectSeq(SplitSpace(text), LAMBDA piece : piece # <<>>)

\* The tokens of a query as the two-state reading describes them: the query
\* is cut at its double quotes; the pieces are read in TERM and PHRASE in
\* turn; a TERM piece gives a term per word; a closed PHRASE piece gives the
\* phrase and a term per word of it; text after an unclosed quote is one term.
RECURSIVE TokensFrom(_, _)
TokensFrom(query, state) ==
  LET closed == \E i \in 1..Len(query) : query[i] = "\""
      i      == IF closed
                THEN CHOOSE i \in 1..Len(query) :
                       /\ query[i] = "\""
                       /\ \A j \in 1..(i - 1) : query[j] # "\""
                ELSE Len(query) + 1
      piece  == SubSeq(query, 1, i - 1)
      rest   == SubSeq(query, i + 1, Len(query))
  IN  IF state = "TERM"
      THEN TermTokens(WordsOf(piece))
             \o (IF closed THEN TokensFrom(rest, "PHRASE") ELSE <<>>)
      ELSE IF closed
      THEN <<PhraseToken(piece)>> \o TermTokens(WordsOf(piece))
             \o TokensFrom(rest, "TERM")
      ELSE IF piece # <<>> THEN <<TermToken(piece)>> ELSE <<>>

\* C19: lex_query is a two-state machine (TERM, PHRASE) that every double
\* quote flips; in TERM a space or a quote ends the token and empty tokens
\* are discarded; a closed phrase yields one phrase token with the text
\* between the quotes followed by one term token for each space-separated
\* word inside it; parse_query returns the term values and the phrase values
\* each in order of appearance.
C19_LexerTokens ==
  last.op = "query" =>
    /\ last.tokens = TokensFrom(last.query, "TERM")
    /\ last.parsed.terms = ValuesOf(TokensFrom(last.query, "TERM"), "term")
    /\ last.parsed.phrases = ValuesOf(TokensFrom(last.query, "TERM"), "phrase")

\* the property above for the queries whose phrases have no empty piece (no
\* empty phrase, no leading, trailing or doubled space inside the quotes)
LexerTokensWithoutEmptyPieces ==
  (/\ last.op = "query"
   /\ \A t \in Range(last.tokens) :
        t.type = "phrase" => \A piece \in Range(SplitSpace(t.value)) : piece # <<>>)
    => last.tokens = TokensFrom(last.query, "TERM")

\* C40: no term token lex_query emits has an empty value or a value with a
\* space or a double quote in it, whatever the query: an empty phrase,
\* spaces in a row inside a phrase and an unterminated quote included.
C40_TermTokensClean ==
  last.op = "query" =>
    \A i \in 1..Len(last.tokens) :
      last.tokens[i].type = "term" =>
        /\ last.tokens[i].value # <<>>
        /\ \A j \in 1..Len(last.tokens[i].value) :
             last.tokens[i].value[j] \notin {" ", "\""}

\* what holds: no term token has a double quote in it, and the term tokens
\* of a query without a double quote are not empty and have no space
TermTokensOutsidePhrases ==
  last.op = "query" =>
    \A i \in 1..Len(last.tokens) :
      last.tokens[i].type = "term" =>
        /\ \A j \in 1..Len(last.tokens[i].value) : last.tokens[i].value[j] # "\""
        /\ (\A k \in 1..Len(last.query) : last.query[k] # "\"")
             => /\ last.tokens[i].value # <<>>
                /\ \A j \in 1..Len(last.tokens[i].value) :
                     last.tokens[i].value[j] # " "

(***************************************************************************)
(* retrieve.search.search_terms_phrases over a small indexed store.        *)
(* Texts, terms and phrases are sequences of characters.  The store holds  *)
(* the pages (title, plaintext), the Word table and one PageWord per page  *)
(* and stem of either stream, as Page.index leaves them.                   *)
(***************************************************************************)
MaxSearchPages == 2

MaxTerms == 2

MaxPhrases == 1

MaxSearches == 1

MaxScore == 1

\* the titles and plaintexts of the pages
PageTexts == { <<>>, <<"a">>, <<"a", " ", "b">>, <<"b", " ", "a">> }

\* the terms of a query: indexed stems, an upper-case spelling, a term made
\* of punctuation only, and a word no page has
SearchTerms == { <<"a">>, <<"b">>, <<"A">>, <<"!">>, <<"z">> }

SearchPhrases == { <<"a", " ", "b">>, <<"b">>, <<"a", "b">> }

\* the alphanumeric characters of the texts: the lower-case letters and "A"
LowerCase ==
  {"a", "b", "c", "d", "e", "f", "g", "h", "i", "j", "k", "l", "m",
   "n", "o", "p", "q", "r", "s", "t", "u", "v", "w", "x", "y", "z"}

\* normalize_text_for_search: the characters that are not alphanumeric are
\* removed and the rest is lower-cased
normalize_text_for_search(text) ==
  LET kept == SelectSeq(text, LAMBDA c : c \in LowerCase \cup {"A"})
  IN  [i \in 1..Len(kept) |-> IF kept[i] = "A" THEN "a" ELSE kept[i]]

\* default_transform_word: porter() returns a word of one or two characters
\* as it is, and no word of the model is a stop word
default_transform_word(word) == normalize_text_for_search(word)

\* the stems default_transform finds in a text
StemsOf(text) ==
  {default_transform_word(w) : w \in Range(WordsOf(text))} \ {<<>>}

\* `phrase in text`
IsSubstring(phrase, text) ==
  \E i \in 0..(Len(text) - Len(phrase)) :
    SubSeq(text, i + 1, i + Len(phrase)) = phrase

\* The store after the pages were indexed in order, with the Word rows
\* `orphans` left behind by earlier versions of the pages.
IndexedStore(pages, orphans) ==
  LET stems == UNION {StemsOf(pages[p].title) \cup StemsOf(pages[p].plaintext) :
                        p \in 1..Len(pages)}
      words == CHOOSE ws \in [1..Cardinality(stems \cup orphans) -> stems \cup orphans] :
                 Range(ws) = stems \cup orphans
  IN  [pages |-> pages,
       words |-> words,
       pw    |-> {[page |-> p, word |-> w] :
                    <<p, w>> \in {x \in (1..Len(pages)) \X (1..Len(words)) :
                                    words[x[2]] \in StemsOf(pages[x[1]].title)
                                                     \cup StemsOf(pages[x[1]].plaintext)}}]

\* the ids of the Word rows of the stems of the terms:
\* Word.in_bulk(frozenset(filter(None, map(default_transform_word, terms))))
ResolvedWords(d, terms) ==
  {w \in 1..Len(d.words) :
     d.words[w] \in {default_transform_word(t) : t \in Range(terms)} \ {<<>>}}

\* the pages of the position rows of the words, then the phrase filter
Candidates(d, words) == {r.page : r \in {x \in d.pw : x.word \in words}}

PhraseFilter(d, cand, phrases) ==
  {p \in cand : \A ph \in Range(phrases) :
                   IsSubstring(ph, d.pages[p].title)
                     \/ IsSubstring(ph, d.pages[p].plaintext)}

\* the id of the Word row of content c among the rows `words`, 0 for None
WordGet(d, words, c) ==
  IF \E w \in words : d.words[w] = c
  THEN CHOOSE w \in words : d.words[w] = c
  ELSE 0

\* OrderedDict((term, words.get(term)) for term in terms): words is keyed by
\* the contents of the Word rows found, and each term is looked up as it was
\* given; a term given twice has one entry, at its first place
words_stems(d, terms) ==
  LET keys == Dedup(terms)
  IN  [k \in 1..Len(keys) |->
         [term |-> keys[k],
          word |-> WordGet(d, ResolvedWords(d, terms), keys[k])]]

\* search_terms_phrases: [exc, pages, terms].  With stems but no page left,
\* tf_many returns an array of shape (0, 0) that does not fit the idf vector
\* or the query vector, and the call raises.  `order` is the ranking argsort
\* gives.
search_terms_phrases(d, terms, phrases, order) ==
  LET words == ResolvedWords(d, terms)
      pages == IF words # {} THEN PhraseFilter(d, Candidates(d, words), phrases)
               ELSE {}
  IN  IF words # {} /\ pages = {}
      THEN [exc |-> "error", pages |-> <<>>, terms |-> <<>>]
      ELSE [exc |-> "none", pages |-> SelectIn(order, pages),
            terms |-> words_stems(d, terms)]

(***************************************************************************)
(* SpecSearch: one store, any query.                                       *)
(***************************************************************************)
InitSearch ==
  /\ InitCrawlerVars
  /\ last = NoOp
  /\ calls = 0
  /\ sup = NoSup
  /\ mn = NoMain
  /\ am = NoMap
  /\ db \in {IndexedStore(pages, orphans) :
               pages \in SeqsUpTo([title : PageTexts, plaintext : PageTexts],
                                  MaxSearchPages),
               orphans \in SUBSET {<<"b">>}}
  /\ db.pages = <<>> => db.words = <<>>

\* argsort(-page_weights): the orders that put no page before one of a larger
\* weight.  The sort is numpy's default one, which is not stable: pages of
\* equal weight come out in any order.
argsort(weights) ==
  {o \in Orders(DOMAIN weights) :
     \A i, j \in 1..Len(o) : i < j => weights[o[i]] >= weights[o[j]]}

\* a query is answered; page_weights (cos_sim + 3.9 * cos_sim_title) stands
\* as one of the levels 0..MaxScore per page
Search(terms, phrases) ==
  /\ calls < MaxSearches
  /\ calls' = calls + 1
  /\ \E weights \in [1..Len(db.pages) -> 0..MaxScore] :
       \E order \in argsort(weights) :
         last' = [op |-> "search", terms |-> terms, phrases |-> phrases,
                  weights |-> weights,
                  ret |-> search_terms_phrases(db, terms, phrases, order)]
  /\ UNCHANGED db

NextSearch ==
  /\ \E terms \in SeqsUpTo(SearchTerms, MaxTerms),
        phrases \in SeqsUpTo(SearchPhrases, MaxPhrases) : Search(terms, phrases)
  /\ UNCHANGED <<crawlerVars, supVars, mainVars, mapVars>>

SpecSearch == InitSearch /\ [][NextSearch]_vars

\* the pages that contain a stem of the terms that the index knows, in the
\* title or the plaintext, and every phrase as a substring of either
Matching(d, terms, phrases) ==
  {p \in 1..Len(d.pages) :
     /\ \E t \in Range(terms) :
          /\ default_transform_word(t) \in Range(d.words)
          /\ default_transform_word(t) \in StemsOf(d.pages[p].title)
                                             \cup StemsOf(d.pages[p].plaintext)
     /\ \A ph \in Range(phrases) :
          IsSubstring(ph, d.pages[p].title) \/ IsSubstring(ph, d.pages[p].plaintext)}

\* C20: the result of search_terms_phrases holds exactly the pages that
\* contain at least one resolved stem in the plaintext or the title and every
\* phrase as a substring of the title or the plaintext, each once; it is
\* empty when no term resolves to an indexed stem.
C20_ResultSet ==
  last.op = "search" =>
    /\ last.ret.exc = "none"
    /\ Range(last.ret.pages) = Matching(db, last.terms, last.phrases)
    /\ NoDup(last.ret.pages)
    /\ (ResolvedWords(db, last.terms) = {} => last.ret.pages = <<>>)

\* whenever the call returns, what it returns is as C20 says
ResultSetWhenReturned ==
  (last.op = "search" /\ last.ret.exc = "none") =>
    /\ Range(last.ret.pages) = Matching(db, last.terms, last.phrases)
    /\ NoDup(last.ret.pages)
    /\ (ResolvedWords(db, last.terms) = {} => last.ret.pages = <<>>)

\* the result is in order of non-increasing weight
RankedByWeight ==
  (last.op = "search" /\ last.ret.exc = "none") =>
    \A i, j \in 1..Len(last.ret.pages) :
      i < j => last.weights[last.ret.pages[i]] >= last.weights[last.ret.pages[j]]

\* C21: search_terms_phrases returns the pages in order of non-increasing
\* score, and pages of equal score keep their relative candidate order (the
\* order of their ids).
C21_RankedStable ==
  (last.op = "search" /\ last.ret.exc = "none") =>
    \A i, j \in 1..Len(last.ret.pages) :
      i < j =>
        \/ last.weights[last.ret.pages[i]] > last.weights[last.ret.pages[j]]
        \/ /\ last.weights[last.ret.pages[i]] = last.weights[last.ret.pages[j]]
           /\ last.ret.pages[i] < last.ret.pages[j]

\* the id of the Word row whose content is c, 0 for none
IndexedWord(d, c) ==
  IF c # <<>> /\ c \in Range(d.words) THEN FirstIndex(d.words, c) ELSE 0

\* C34: search_terms_phrases returns `terms` as an ordered map, in input
\* order, from each input term to the indexed Word whose content is
\* default_transform_word(term), or to none when that stem is not indexed or
\* the term normalizes to nothing.
C34_TermsMap ==
  (last.op = "search" /\ last.ret.exc = "none") =>
    /\ [k \in 1..Len(last.ret.terms) |-> last.ret.terms[k].term] = Dedup(last.terms)
    /\ \A k \in 1..Len(last.ret.terms) :
         last.ret.terms[k].word
           = IndexedWord(db, default_transform_word(last.ret.terms[k].term))

\* what the code does give: the map has the input terms in input order, and
\* a term maps to a Word only if it is itself the content of that Word
TermsMapByRawTerm ==
  (last.op = "search" /\ last.ret.exc = "none") =>
    /\ [k \in 1..Len(last.ret.terms) |-> last.ret.terms[k].term] = Dedup(last.terms)
    /\ \A k \in 1..Len(last.ret.terms) :
         last.ret.terms[k].word = IndexedWord(db, last.ret.terms[k].term)

(***************************************************************************)
(* The summary renderer (database/output.py) over the SQLite store.        *)
(*                                                                         *)
(* In SpecSummary db is [urls, words, pages]: urls[r] and words[r] are the *)
(* contents of the rows of main.urls and main.words, given as their ranks  *)
(* in the order of the strings; pages[r] is the row of main.pages of rowid *)
(* r and its rows of main.word_occurrences and main.word_occurrences_title *)
(* (a frequency of 0 stands for no row), pages[r].present tells whether    *)
(* the row exists.  The text written is a sequence of lines [kind, val].   *)
(***************************************************************************)
\* the rowids of main.urls are 1..NumSumPages
NumSumPages == 3

\* count, keyword_count and link_count are taken from -1..MaxLimit
MaxLimit == 2

\* main.urls and main.words: the order of the contents is not the order of the
\* rowids
URLContent == [r \in 1..NumSumPages |-> (r % NumSumPages) + 1]

WordContent == <<2, 1>>

NoPage == [present |-> FALSE, title |-> <<>>, mod_time |-> 0, size |-> 0,
           links |-> <<>>, frequency |-> <<0, 0>>, frequency_title |-> <<0, 0>>]

\* the rows a page can have: with and without a title, links and keywords,
\* with keywords of equal and of different combined frequency
PageRows ==
  {NoPage,
   [present |-> TRUE, title |-> <<1>>, mod_time |-> 1, size |-> 42,
    links |-> <<>>, frequency |-> <<1, 1>>, frequency_title |-> <<0, 0>>],
   [present |-> TRUE, title |-> <<>>, mod_time |-> 2, size |-> 42,
    links |-> <<1, 2, 3>>, frequency |-> <<1, 0>>, frequency_title |-> <<0, 2>>],
   [present |-> TRUE, title |-> <<1>>, mod_time |-> 1, size |-> 42,
    links |-> <<1, 3>>, frequency |-> <<2, 1>>, frequency_title |-> <<1, 1>>],
   [present |-> TRUE, title |-> <<>>, mod_time |-> 2, size |-> 42,
    links |-> <<2>>, frequency |-> <<0, 0>>, frequency_title |-> <<0, 0>>]}

\* LIMIT n: a negative n is no limit
Limit(rows, n) ==
  IF n < 0 \/ n >= Len(rows) THEN rows ELSE SubSeq(rows, 1, n)

\* ORDER BY: the rows of S in an order that puts no row before one that is
\* Before it; rows that the keys do not tell apart come in any order
OrderBy(S, Before(_, _)) ==
  {o \in Orders(S) : \A i, j \in 1..Len(o) : i < j => ~Before(o[j], o[i])}

\* ORDER BY rowid
RowidBefore(a, b) == a < b

\* coalesce(word_occurrences.frequency, 0)
\*   + coalesce(word_occurrences_title.frequency, 0)
words_frequency_key(page, w) == page.frequency[w] + page.frequency_title[w]

\* ORDER BY words_frequency_key DESC, main.words.content ASC
KeywordBefore_mut_frequencyonly(d, page, a, b) ==
  words_frequency_key(page, a) > words_frequency_key(page, b)

KeywordBefore(d, page, a, b) ==
  \/ words_frequency_key(page, a) > words_frequency_key(page, b)
  \/ /\ words_frequency_key(page, a) = words_frequency_key(page, b)
     /\ d.words[a] < d.words[b]

\* ORDER BY content (main.urls)
LinkBefore(d, a, b) == d.urls[a] < d.urls[b]

\* SELECT ... FROM main.pages INNER JOIN main.urls USING (rowid)
\* ORDER BY rowid LIMIT count
SelectPages(d, count) ==
  {Limit(o, count) :
     o \in OrderBy({r \in 1..Len(d.pages) : d.pages[r].present}, RowidBefore)}

\* the rows of the two word_occurrences tables of a page, FULL OUTER JOINed
\* on word_id, ordered and limited
SelectWords(d, page, keyword_count) ==
  {Limit(o, keyword_count) :
     o \in OrderBy({w \in 1..Len(d.words) :
                      page.frequency[w] > 0 \/ page.frequency_title[w] > 0},
                   LAMBDA a, b : KeywordBefore(d, page, a, b))}

\* SELECT content FROM main.urls WHERE rowid IN (links) ORDER BY content LIMIT
SelectLinks(d, page, link_count) ==
  {Limit(o, link_count) :
     o \in OrderBy(Range(page.links), LAMBDA a, b : LinkBefore(d, a, b))}

Separator == <<[kind |-> "separator", val |-> <<>>]>>

RECURSIVE KeywordPairs(_, _, _)
\* "word frequency" of each row, joined by "; "
KeywordPairs(d, page, ws) ==
  IF ws = <<>> THEN <<>>
  ELSE <<d.words[Head(ws)], words_frequency_key(page, Head(ws))>>
         \o KeywordPairs(d, page, Tail(ws))

\* the lines written for a page: title or "(no title)", URL, "mod_time, size",
\* the keywords, and the links joined by "\n" and followed by "\n" (one empty
\* line when there is no link)
EntryLines(d, r, ws, ls) ==
  LET page == d.pages[r]
  IN  << [kind |-> "title", val |-> IF page.title = <<>> THEN <<0>> ELSE page.title],
         [kind |-> "url", val |-> <<d.urls[r]>>],
         [kind |-> "time and size", val |-> <<page.mod_time, page.size>>],
         [kind |-> "keywords", val |-> KeywordPairs(d, page, ws)] >>
      \o (IF ls = <<>> THEN <<[kind |-> "link", val |-> <<>>]>>
          ELSE [i \in 1..Len(ls) |-> [kind |-> "link", val |-> <<d.urls[ls[i]]>>]])

RECURSIVE SummaryLoop(_, _, _, _, _)
\* async for page in pages: the texts that can be written for the pages left,
\* separator being the text written before the next page
SummaryLoop(d, pages, separator, keyword_count, link_count) ==
  IF pages = <<>> THEN {<<>>}
  ELSE {separator \o EntryLines(d, Head(pages), ws, ls) \o rest :
          ws \in SelectWords(d, d.pages[Head(pages)], keyword_count),
          ls \in SelectLinks(d, d.pages[Head(pages)], link_count),
          rest \in SummaryLoop(d, Tail(pages), Separator, keyword_count, link_count)}

\* summary(self, fp, count, keyword_count, link_count): the texts it can write
summary(d, count, keyword_count, link_count) ==
  UNION {SummaryLoop(d, pages, <<>>, keyword_count, link_count) :
           pages \in SelectPages(d, count)}

InitSummary ==
  /\ InitCrawlerVars
  /\ last = NoOp
  /\ db \in [urls : {URLContent}, words : {WordContent},
             pages : [1..NumSumPages -> PageRows]]
  /\ calls = 0
  /\ sup = NoSup
  /\ mn = NoMain
  /\ am = NoMap

\* main writes the summary once, after the crawl
Summary(count, keyword_count, link_count) ==
  /\ last = NoOp
  /\ \E out \in summary(db, count, keyword_count, link_count) :
       last' = [op |-> "summary", count |-> count,
                keyword_count |-> keyword_count, link_count |-> link_count,
                out |-> out]
  /\ UNCHANGED storeVars

NextSummary ==
  /\ \E count, keyword_count, link_count \in -1..MaxLimit :
       Summary(count, keyword_count, link_count)
  /\ UNCHANGED <<crawlerVars, supVars, mainVars, mapVars>>

SpecSummary == InitSummary /\ [][NextSummary]_vars

\* the positions of the title lines of a text, ascending
Starts(out) == Ascending({i \in 1..Len(out) : out[i].kind = "title"})

\* the lines of the j-th entry of a text, up to the line before the next title
EntryOf(out, j) ==
  LET st == Starts(out)
  IN  SubSeq(out, st[j], IF j < Len(st) THEN st[j + 1] - 1 ELSE Len(out))

\* the page an entry is about: the one of the URL written
PageOfEntry(d, e) == CHOOSE r \in 1..Len(d.urls) : <<d.urls[r]>> = e[2].val

\* n items, or all of them when n is negative or there are fewer
AtMost(n, S) == IF n < 0 \/ n >= Cardinality(S) THEN Cardinality(S) ELSE n

\* the keywords of an entry are pairs of a word of the page and its combined
\* frequency, as many as the limit allows, in descending frequency and then
\* ascending word, and no word left out comes before one written
KeywordsAsClaimed(d, page, val, keyword_count) ==
  LET all == {w \in 1..Len(d.words) :
                page.frequency[w] > 0 \/ page.frequency_title[w] > 0}
      n == Len(val) \div 2
      word(i) == val[2 * i - 1]
      freq(i) == val[2 * i]
      written == {w \in all : \E i \in 1..n : word(i) = d.words[w]}
  IN  /\ Len(val) = 2 * AtMost(keyword_count, all)
      /\ \A i \in 1..n :
           \E w \in all : word(i) = d.words[w]
                          /\ freq(i) = page.frequency[w] + page.frequency_title[w]
      /\ \A i \in 1..n, j \in 1..n :
           i < j => \/ freq(i) > freq(j)
                    \/ freq(i) = freq(j) /\ word(i) < word(j)
      /\ \A w \in all \ written : \A i \in 1..n :
           \/ freq(i) > page.frequency[w] + page.frequency_title[w]
           \/ /\ freq(i) = page.frequency[w] + page.frequency_title[w]
              /\ word(i) < d.words[w]

\* the link lines of an entry are the first URLs of the page's links in the
\* order of the strings, as many as the limit allows
LinksAsClaimed(d, page, lines, link_count) ==
  LET all == {d.urls[l] : l \in Range(page.links)}
      n == AtMost(link_count, all)
  IN  IF n = 0 THEN lines = <<[kind |-> "link", val |-> <<>>]>>
      ELSE /\ Len(lines) = n
           /\ \A i \in 1..n : lines[i].kind = "link" /\ Len(lines[i].val) = 1
                              /\ lines[i].val[1] \in all
           /\ \A i, j \in 1..n : i < j => lines[i].val[1] < lines[j].val[1]
           /\ \A c \in all \ {lines[i].val[1] : i \in 1..n} :
                \A i \in 1..n : lines[i].val[1] < c

\* C22: the summary is a function of the store and the three limits: the pages
\* come in ascending id order, at most count of them (all when negative), each
\* with at most keyword_count keywords in descending combined frequency and
\* then ascending word, at most link_count links in the order of the strings,
\* and one separator line between two entries, none before the first or after
\* the last.
C22_SummaryDeterministic ==
  last.op = "summary" =>
    LET out == last.out
        st == Starts(out)
        present == {r \in 1..Len(db.pages) : db.pages[r].present}
        n == Len(st)
    IN  /\ summary(db, last.count, last.keyword_count, last.link_count) = {out}
        /\ n = AtMost(last.count, present)
        /\ (n = 0) = (out = <<>>)
        /\ n > 0 => st[1] = 1
        /\ \A j \in 1..n :
             LET e == EntryOf(out, j)
                 r == PageOfEntry(db, e)
                 body == IF j < n THEN SubSeq(e, 1, Len(e) - 1) ELSE e
             IN  /\ r \in present
                 /\ \A q \in present : (q < r) = (\E i \in 1..(j - 1) :
                                           PageOfEntry(db, EntryOf(out, i)) = q)
                 /\ j < n => e[Len(e)].kind = "separator"
                 /\ \A i \in 1..Len(body) : body[i].kind # "separator"
                 /\ e[1].val = (IF db.pages[r].title = <<>> THEN <<0>>
                                ELSE db.pages[r].title)
                 /\ e[3].val = <<db.pages[r].mod_time, db.pages[r].size>>
                 /\ e[4].kind = "keywords"
                 /\ KeywordsAsClaimed(db, db.pages[r], e[4].val, last.keyword_count)
                 /\ LinksAsClaimed(db, db.pages[r], SubSeq(body, 5, Len(body)),
                                   last.link_count)

\* a summary of three pages was written with a limit on each list: one page
\* is left out, and so are a keyword and a link of a page written
C22_Witness ==
  /\ last.op = "summary"
  /\ last.count = 2 /\ last.keyword_count = 1 /\ last.link_count = 1
  /\ \A r \in 1..NumSumPages : db.pages[r].present
  /\ Len(Starts(last.out)) = 2
  /\ \E r \in 1..2 : /\ db.pages[r].frequency = <<1, 1>>
                     /\ Len(db.pages[r].links) = 0
  /\ \E r \in 1..2 : Len(db.pages[r].links) = 3

(***************************************************************************)
(* The Porter stemmer (index/transform.py).  A word is a sequence of       *)
(* characters.                                                             *)
(*                                                                         *)
(* In SpecStem last is [op, word, stem]: the word handed to porter and     *)
(* what it returned.                                                       *)
(***************************************************************************)
\* the words stemmed are made of at most MaxPieces of the Pieces
MaxPieces == 3

Pieces ==
  { <<"m", "e", "g", "a">>,
    <<"k", "i", "l", "o">>,
    <<"a", "g", "r", "e">>,
    <<"e">>,
    <<"e", "d">>,
    <<"s">>,
    <<"i", "n", "g">>,
    <<"a", "t">>,
    <<"y">>,
    <<"a", "t", "i", "o", "n", "a", "l">>,
    <<"n", "e", "s", "s">>,
    <<"l", "l">>,
    <<"h", "o", "p">>,
    <<"i", "c">>,
    <<"m", "e", "n", "t">> }

RECURSIVE Concat(_)
Concat(ps) == IF ps = <<>> THEN <<>> ELSE Head(ps) \o Concat(Tail(ps))

StemWords == {Concat(ps) : ps \in SeqsUpTo(Pieces, MaxPieces)}

LSZ == {"l", "s", "z"}

NOT_SEMIVOWELS == {<<"a", "y">>, <<"e", "y">>, <<"i", "y">>, <<"o", "y">>, <<"u", "y">>}

PREFIXES ==
  << <<"k", "i", "l", "o">>,
     <<"m", "i", "c", "r", "o">>,
     <<"m", "i", "l", "l", "i">>,
     <<"i", "n", "t", "r", "a">>,
     <<"u", "l", "t", "r", "a">>,
     <<"m", "e", "g", "a">>,
     <<"n", "a", "n", "o">>,
     <<"p", "i", "c", "o">>,
     <<"p", "s", "e", "u", "d", "o">> >>

STEP2_REPLACEMENTS ==
  << <<<<"a", "t", "i", "o", "n", "a", "l">>, <<"a", "t", "e">>>>,
     <<<<"t", "i", "o", "n", "a", "l">>, <<"t", "i", "o", "n">>>>,
     <<<<"e", "n", "c", "i">>, <<"e", "n", "c", "e">>>>,
     <<<<"a", "n", "c", "i">>, <<"a", "n", "c", "e">>>>,
     <<<<"i", "z", "e", "r">>, <<"i", "z", "e">>>>,
     <<<<"i", "s", "e", "r">>, <<"i", "z", "e">>>>,
     <<<<"a", "b", "l", "i">>, <<"a", "b", "l", "e">>>>,
     <<<<"a", "l", "l", "i">>, <<"a", "l">>>>,
     <<<<"e", "n", "t", "l", "i">>, <<"e", "n", "t">>>>,
     <<<<"e", "l", "i">>, <<"e">>>>,
     <<<<"o", "u", "s", "l", "i">>, <<"o", "u", "s">>>>,
     <<<<"i", "z", "a", "t", "i", "o", "n">>, <<"i", "z", "e">>>>,
     <<<<"i", "s", "a", "t", "i", "o", "n">>, <<"i", "z", "e">>>>,
     <<<<"a", "t", "i", "o", "n">>, <<"a", "t", "e">>>>,
     <<<<"a", "t", "o", "r">>, <<"a", "t", "e">>>>,
     <<<<"a", "l", "i", "s", "m">>, <<"a", "l">>>>,
     <<<<"i", "v", "e", "n", "e", "s", "s">>, <<"i", "v", "e">>>>,
     <<<<"f", "u", "l", "n", "e", "s", "s">>, <<"f", "u", "l">>>>,
     <<<<"o", "u", "s", "n", "e", "s", "s">>, <<"o", "u", "s">>>>,
     <<<<"a", "l", "i", "t", "i">>, <<"a", "l">>>>,
     <<<<"i", "v", "i", "t", "i">>, <<"i", "v", "e">>>>,
     <<<<"b", "i", "l", "i", "t", "i">>, <<"b", "l", "e">>>> >>

STEP3_REPLACEMENTS ==
  << <<<<"i", "c", "a", "t", "e">>, <<"i", "c">>>>,
     <<<<"a", "t", "i", "v", "e">>, <<>>>>,
     <<<<"a", "l", "i", "z", "e">>, <<"a", "l">>>>,
     <<<<"a", "l", "i", "s", "e">>, <<"a", "l">>>>,
     <<<<"i", "c", "i", "t", "i">>, <<"i", "c">>>>,
     <<<<"i", "c", "a", "l">>, <<"i", "c">>>>,
     <<<<"f", "u", "l">>, <<>>>>,
     <<<<"n", "e", "s", "s">>, <<>>>> >>

STEP4_REPLACEMENTS ==
  << <<"a", "l">>,
     <<"a", "n", "c", "e">>,
     <<"e", "n", "c", "e">>,
     <<"e", "r">>,
     <<"i", "c">>,
     <<"a", "b", "l", "e">>,
     <<"i", "b", "l", "e">>,
     <<"a", "n", "t">>,
     <<"e", "m", "e", "n", "t">>,
     <<"m", "e", "n", "t">>,
     <<"e", "n", "t">>,
     <<"s", "i", "o", "n">>,
     <<"t", "i", "o", "n">>,
     <<"o", "u">>,
     <<"i", "s", "m">>,
     <<"a", "t", "e">>,
     <<"i", "t", "i">>,
     <<"o", "u", "s">>,
     <<"i", "v", "e">>,
     <<"i", "z", "e">>,
     <<"i", "s", "e">> >>

VOWELS == {"a", "e", "i", "o", "u", "y"}

WXY == {"w", "x", "y"}

\* str.endswith, str.removesuffix, str.removeprefix, word[:-n]
EndsWith(word, s) ==
  Len(word) >= Len(s) /\ SubSeq(word, Len(word) - Len(s) + 1, Len(word)) = s

DropLast(word, n) == SubSeq(word, 1, Len(word) - n)

RemoveSuffix(word, s) ==
  IF s # <<>> /\ EndsWith(word, s) THEN DropLast(word, Len(s)) ELSE word

RemovePrefix(word, s) ==
  IF s # <<>> /\ Len(word) >= Len(s) /\ SubSeq(word, 1, Len(s)) = s
  THEN SubSeq(word, Len(s) + 1, Len(word)) ELSE word

\* is_vowel_segment of the two characters a, b
is_vowel_segment(a, b) == b \in VOWELS /\ <<a, b>> \notin NOT_SEMIVOWELS

\* map(is_vowel_segment, pairwise(f"a{word}")): one flag per character
VowelFlags(word) ==
  [i \in 1..Len(word) |->
     is_vowel_segment(IF i = 1 THEN "a" ELSE word[i - 1], word[i])]

contain_vowels(word) == \E i \in 1..Len(word) : VowelFlags(word)[i]

\* the number of places where a vowel segment is followed by one that is not
measure_vowel_segments(word) ==
  LET f == VowelFlags(word)
  IN  Cardinality({i \in 1..(Len(word) - 1) : f[i] /\ ~f[i + 1]})

cvc(word) ==
  LET n == Len(word)
  IN  /\ n >= 3
      /\ word[n] \notin WXY
      /\ ~is_vowel_segment(word[n - 1], word[n])
      /\ is_vowel_segment(word[n - 2], word[n - 1])
      /\ ~is_vowel_segment(IF n = 3 THEN "?" ELSE word[n - 3], word[n - 2])

RECURSIVE StripPrefixLoop(_, _)
\* for prefix in PREFIXES: the first prefix that the word starts with is
\* removed
StripPrefixLoop(word, i) ==
  IF i > Len(PREFIXES) THEN word
  ELSE IF RemovePrefix(word, PREFIXES[i]) # word
       THEN RemovePrefix(word, PREFIXES[i])
       ELSE StripPrefixLoop(word, i + 1)

strip_prefix(word) == IF word = <<>> THEN <<>> ELSE StripPrefixLoop(word, 1)

\* step1, first part: the plural endings; [ret, word] where ret tells that
\* the step returned "" at once
Step1Plural(word) ==
  IF EndsWith(word, <<"s">>)
  THEN IF /\ EndsWith(word, <<"s", "s", "e", "s">>) \/ EndsWith(word, <<"i", "e", "s">>)
          /\ word \notin {<<"s", "s", "e", "s">>, <<"i", "e", "s">>}
       THEN [ret |-> FALSE, word |-> DropLast(word, 2)]
       ELSE IF Len(word) = 1 THEN [ret |-> TRUE, word |-> <<>>]
            ELSE IF word[Len(word) - 1] # "s"
                 THEN [ret |-> FALSE, word |-> DropLast(word, 1)]
                 ELSE [ret |-> FALSE, word |-> word]
  ELSE [ret |-> FALSE, word |-> word]

\* step1, second part: "eed", "ed" and "ing"; [ret, word] where ret tells
\* that the step returned the word at once
Step1Past(word) ==
  IF EndsWith(word, <<"e", "e", "d">>) /\ Len(word) > 3
  THEN [ret |-> FALSE,
        word |-> IF measure_vowel_segments(DropLast(word, 3)) > 0
                 THEN DropLast(word, 1) ELSE word]
  ELSE LET word2 == IF RemoveSuffix(word, <<"e", "d">>) # word
                    THEN RemoveSuffix(word, <<"e", "d">>)
                    ELSE RemoveSuffix(word, <<"i", "n", "g">>)
       IN  IF word2 # word /\ contain_vowels(word2)
           THEN IF Len(word2) <= 1 THEN [ret |-> TRUE, word |-> word2]
                ELSE IF /\ \/ EndsWith(word2, <<"a", "t">>)
                           \/ EndsWith(word2, <<"b", "l">>)
                           \/ EndsWith(word2, <<"i", "z">>)
                        /\ Len(word2) > 2
                     THEN [ret |-> FALSE, word |-> Append(word2, "e")]
                     ELSE IF /\ word2[Len(word2)] \notin LSZ
                             /\ word2[Len(word2)] = word2[Len(word2) - 1]
                          THEN [ret |-> FALSE, word |-> DropLast(word2, 1)]
                          ELSE IF measure_vowel_segments(word2) = 1 /\ cvc(word2)
                               THEN [ret |-> FALSE, word |-> Append(word2, "e")]
                               ELSE [ret |-> FALSE, word |-> word2]
           ELSE [ret |-> FALSE, word |-> word]

step1(word) ==
  LET a == Step1Plural(word)
      b == Step1Past(a.word)
  IN  IF a.ret THEN <<>>
      ELSE IF b.ret THEN b.word
      ELSE IF EndsWith(b.word, <<"y">>) /\ contain_vowels(DropLast(b.word, 1))
           THEN Append(DropLast(b.word, 1), "i")
           ELSE b.word

RECURSIVE Replace(_, _, _, _)
\* for find, replace in table: the first ending that the word has and whose
\* removal leaves more than m vowel segments is replaced
Replace(word, table, m, i) ==
  IF i > Len(table) THEN word
  ELSE LET word2 == RemoveSuffix(word, table[i][1])
       IN  IF word2 # word /\ measure_vowel_segments(word2) > m
           THEN word2 \o table[i][2]
           ELSE Replace(word, table, m, i + 1)

step2(word) == Replace(word, STEP2_REPLACEMENTS, 0, 1)

step3(word) == Replace(word, STEP3_REPLACEMENTS, 0, 1)

step4(word) ==
  Replace(word, [i \in 1..Len(STEP4_REPLACEMENTS) |-> <<STEP4_REPLACEMENTS[i], <<>>>>], 1, 1)

step5(word) ==
  LET measure == measure_vowel_segments(word)
      w == IF word[Len(word)] = "e"
           THEN IF measure > 1 THEN DropLast(word, 1)
                ELSE IF measure = 1 /\ ~cvc(DropLast(word, 1)) THEN DropLast(word, 1)
                ELSE word
           ELSE word
  IN  IF Len(w) = 1 THEN w
      ELSE IF EndsWith(w, <<"l", "l">>) /\ measure_vowel_segments(w) > 1
           THEN DropLast(w, 1)
           ELSE w

\* for step in (step1, ..., step5): an empty word ends the loop
strip_suffix(word) ==
  LET w1 == IF word = <<>> THEN <<>> ELSE step1(word)
      w2 == IF w1 = <<>> THEN <<>> ELSE step2(w1)
      w3 == IF w2 = <<>> THEN <<>> ELSE step3(w2)
      w4 == IF w3 = <<>> THEN <<>> ELSE step4(w3)
  IN  IF w4 = <<>> THEN <<>> ELSE step5(w4)

\* _Porter.__call__
porter(word) ==
  LET w == normalize_text_for_search(word)
  IN  IF Len(w) <= 2 THEN w ELSE strip_suffix(strip_prefix(w))

InitStem ==
  /\ InitCrawlerVars
  /\ last = NoOp
  /\ db = EmptyDB
  /\ calls = 0
  /\ sup = NoSup
  /\ mn = NoMain
  /\ am = NoMap

\* a word is stemmed
Stem(word) ==
  /\ last = NoOp
  /\ last' = [op |-> "porter", word |-> word, stem |-> porter(word)]
  /\ UNCHANGED storeVars

\* the stem returned is stemmed, as when a stored Word content is looked up
StemAgain ==
  /\ last.op = "porter"
  /\ last' = [op |-> "porter", word |-> last.stem, stem |-> porter(last.stem)]
  /\ UNCHANGED storeVars

NextStem ==
  /\ \/ \E word \in StemWords : Stem(word)
     \/ StemAgain
  /\ UNCHANGED <<crawlerVars, supVars, mainVars, mapVars>>

SpecStem == InitStem /\ [][NextStem]_vars

\* C23: the stemmer is idempotent: the stem of a stem is that stem.
C23_StemIdempotent ==
  last.op = "porter" => porter(last.stem) = last.stem

(***************************************************************************)
(* default_transform (index/transform.py): tokens, normalization, stop     *)
(* words and stems of a text.                                              *)
(*                                                                         *)
(* In SpecTransform last is [op, text, ret]: the text handed to            *)
(* default_transform and the (position, stem) pairs it yields.             *)
(***************************************************************************)
\* the texts are made of at most MaxTextPieces of the TextPieces
MaxTextPieces == 3

TextPieces ==
  { <<"a", "s">>, <<"A", "s">>, <<"a", "s", "e">>, <<"m", "e", "g", "a">>,
    <<"e", "a", "s", "e">>, <<"s">>, <<" ">>, <<"!">> }

Texts == {Concat(ps) : ps \in SeqsUpTo(TextPieces, MaxTextPieces)}

\* res/stop words.txt, casefolded: "as" is one of the stop words
STOP_WORDS == { <<"a", "s">> }

IsLetter(c) == c \in LowerCase \cup {"A"}

\* _WORD_TOKENIZER.span_tokenize(text) on texts of letters, spaces and "!":
\* the spans (first, last character) of the runs of letters and of each "!"
span_tokenize(text) ==
  {sp \in (1..Len(text)) \X (1..Len(text)) :
     \/ /\ sp[1] <= sp[2]
        /\ \A i \in sp[1]..sp[2] : IsLetter(text[i])
        /\ sp[1] = 1 \/ ~IsLetter(text[sp[1] - 1])
        /\ sp[2] = Len(text) \/ ~IsLetter(text[sp[2] + 1])
     \/ sp[1] = sp[2] /\ text[sp[1]] = "!"}

\* split_words: (start, text[start:end]) of each span, in the order of the
\* spans; start counts from 0
split_words(text) ==
  LET spans == span_tokenize(text)
      starts == Ascending({sp[1] : sp \in spans})
  IN  [i \in 1..Len(starts) |->
         LET sp == CHOOSE x \in spans : x[1] = starts[i]
         IN  [pos |-> sp[1] - 1, word |-> SubSeq(text, sp[1], sp[2])]]

\* the stop words are tested on the stems, not on the normalized words
default_transform_mut_stemfirst(text) ==
  LET words == split_words(text)
      stemmed == [i \in 1..Len(words) |->
                    [pos |-> words[i].pos,
                     word |-> porter(normalize_text_for_search(words[i].word))]]
      kept == SelectSeq(stemmed, LAMBDA w : w.word \notin STOP_WORDS)
  IN  SelectSeq(kept, LAMBDA w : w.word # <<>>)

default_transform(text) ==
  LET words == split_words(text)
      normalized == [i \in 1..Len(words) |->
                       [pos |-> words[i].pos,
                        word |-> normalize_text_for_search(words[i].word)]]
      kept == SelectSeq(normalized, LAMBDA w : w.word \notin STOP_WORDS)
      stemmed == [i \in 1..Len(kept) |->
                    [pos |-> kept[i].pos, word |-> porter(kept[i].word)]]
  IN  SelectSeq(stemmed, LAMBDA w : w.word # <<>>)

InitTransform ==
  /\ InitCrawlerVars
  /\ last = NoOp
  /\ db = EmptyDB
  /\ calls = 0
  /\ sup = NoSup
  /\ mn = NoMain
  /\ am = NoMap

\* a text is transformed
Transform(text) ==
  /\ last = NoOp
  /\ last' = [op |-> "default_transform", text |-> text, ret |-> default_transform(text)]
  /\ UNCHANGED storeVars

NextTransform ==
  /\ \E text \in Texts : Transform(text)
  /\ UNCHANGED <<crawlerVars, supVars, mainVars, mapVars>>

SpecTransform == InitTransform /\ [][NextTransform]_vars

\* a token is dropped when its normalized form is empty or a stop word, or
\* its stem is empty
Dropped(token) ==
  LET n == normalize_text_for_search(token.word)
  IN  n = <<>> \/ n \in STOP_WORDS \/ porter(n) = <<>>

\* C24: default_transform yields (position, stem) pairs in strictly
\* increasing position order; each position is the start of a token of
\* split_words(text), the text at that position is the token and the stem is
\* the stem of its normalized form; a token is left out exactly when its
\* normalized form is empty or a stop word (tested before stemming) or its
\* stem is empty.
C24_TransformPositions ==
  last.op = "default_transform" =>
    LET ret == last.ret
        tokens == split_words(last.text)
    IN  /\ \A i, j \in 1..Len(ret) : i < j => ret[i].pos < ret[j].pos
        /\ \A i \in 1..Len(ret) :
             \E k \in 1..Len(tokens) :
               /\ tokens[k].pos = ret[i].pos
               /\ SubSeq(last.text, ret[i].pos + 1,
                         ret[i].pos + Len(tokens[k].word)) = tokens[k].word
               /\ ret[i].word = porter(normalize_text_for_search(tokens[k].word))
        /\ \A k \in 1..Len(tokens) :
             Dropped(tokens[k]) = (\A i \in 1..Len(ret) : ret[i].pos # tokens[k].pos)

\* a text with a stop word in upper case, which is left out, and a word whose
\* stem is a stop word, which is kept
C24_Witness ==
  /\ last.op = "default_transform"
  /\ last.text = <<"A", "s", " ", "a", "s", "e">>
  /\ last.ret = <<[pos |-> 3, word |-> <<"a", "s">>]>>

(***************************************************************************)
(* parse_http_datetime (_util.py).  A header value is a sequence of        *)
(* characters.                                                             *)
(*                                                                         *)
(* In SpecDate last is [op, val, parts, ret]: the value parsed, the pieces *)
(* it was written from, and the outcome [exc, dt] with dt = <<year, month, *)
(* day, hour, minute, second, minutes of the UTC offset>>.                 *)
(***************************************************************************)
Digits == <<"0", "1", "2", "3", "4", "5", "6", "7", "8", "9">>

IsDigit(c) == c \in Range(Digits)

DigitOf(c) == FirstIndex(Digits, c) - 1

RECURSIVE IntOf(_)
\* int(s) of a string of digits
IntOf(s) ==
  IF s = <<>> THEN 0 ELSE 10 * IntOf(SubSeq(s, 1, Len(s) - 1)) + DigitOf(s[Len(s)])

HTTP_LAST_MODIFIED ==
  << <<<<"J", "a", "n">>, <<"0", "1">>>>,
     <<<<"F", "e", "b">>, <<"0", "2">>>>,
     <<<<"M", "a", "r">>, <<"0", "3">>>>,
     <<<<"A", "p", "r">>, <<"0", "4">>>>,
     <<<<"M", "a", "y">>, <<"0", "5">>>>,
     <<<<"J", "u", "n">>, <<"0", "6">>>>,
     <<<<"J", "u", "l">>, <<"0", "7">>>>,
     <<<<"A", "u", "g">>, <<"0", "8">>>>,
     <<<<"S", "e", "p">>, <<"0", "9">>>>,
     <<<<"O", "c", "t">>, <<"1", "0">>>>,
     <<<<"N", "o", "v">>, <<"1", "1">>>>,
     <<<<"D", "e", "c">>, <<"1", "2">>>> >>

\* the first index at which key occurs in val, 0 when `key in val` is false
Find(val, key) ==
  LET at == {i \in 1..(Len(val) - Len(key) + 1) :
               SubSeq(val, i, i + Len(key) - 1) = key}
  IN  IF at = {} THEN 0 ELSE CHOOSE i \in at : \A j \in at : i <= j

\* val.replace(key, new, 1)
ReplaceFirst(val, key, new) ==
  LET i == Find(val, key)
  IN  IF i = 0 THEN val
      ELSE SubSeq(val, 1, i - 1) \o new \o SubSeq(val, i + Len(key), Len(val))

RECURSIVE ReplaceAllOf(_, _, _)
\* val.replace(key, new)
ReplaceAllOf(val, key, new) ==
  LET i == Find(val, key)
  IN  IF i = 0 THEN val
      ELSE SubSeq(val, 1, i - 1) \o new
             \o ReplaceAllOf(SubSeq(val, i + Len(key), Len(val)), key, new)

RECURSIVE ReplaceMonth(_, _)
\* for m_key, m_val in _HTTP_LAST_MODIFIED.items(): the first month name
\* found in val is replaced, once
ReplaceMonth(val, i) ==
  IF i > Len(HTTP_LAST_MODIFIED) THEN val
  ELSE IF Find(val, HTTP_LAST_MODIFIED[i][1]) # 0
       THEN ReplaceFirst(val, HTTP_LAST_MODIFIED[i][1], HTTP_LAST_MODIFIED[i][2])
       ELSE ReplaceMonth(val, i + 1)

RECURSIVE SplitOn(_, _)
\* the pieces of s between the occurrences of the character c
SplitOn(s, c) ==
  IF c \notin Range(s) THEN <<s>>
  ELSE LET i == FirstIndex(s, c)
       IN  <<SubSeq(s, 1, i - 1)>> \o SplitOn(SubSeq(s, i + 1, Len(s)), c)

\* a directive that takes one or two digits with a value in lo..hi
TwoDigits(s, lo, hi) ==
  /\ Len(s) \in 1..2
  /\ \A i \in 1..Len(s) : IsDigit(s[i])
  /\ IntOf(s) \in lo..hi

\* %z: Z, or a sign, two digits, an optional colon and two digits below 60
IsOffset(s) ==
  \/ s = <<"Z">>
  \/ LET t == IF Len(s) = 6 /\ s[4] = ":"
              THEN SubSeq(s, 1, 3) \o SubSeq(s, 5, 6) ELSE s
     IN  /\ Len(t) = 5
         /\ t[1] \in {"+", "-"}
         /\ \A i \in 2..5 : IsDigit(t[i])
         /\ DigitOf(t[4]) <= 5

OffsetOf(s) ==
  IF s = <<"Z">> THEN 0
  ELSE LET t == IF Len(s) = 6 THEN SubSeq(s, 1, 3) \o SubSeq(s, 5, 6) ELSE s
           m == 60 * IntOf(SubSeq(t, 2, 3)) + IntOf(SubSeq(t, 4, 5))
       IN  IF t[1] = "-" THEN 0 - m ELSE m

IsLeap(year) == year % 4 = 0 /\ (year % 100 # 0 \/ year % 400 = 0)

DaysIn(year, month) ==
  IF month = 2 THEN (IF IsLeap(year) THEN 29 ELSE 28)
  ELSE IF month \in {4, 6, 9, 11} THEN 30 ELSE 31

ValueError == [exc |-> "ValueError", dt |-> <<>>]

\* datetime.strptime(val, "%d %m %Y %H:%M:%S %z"): the directives are
\* separated by one or more spaces, %d takes " 1" to " 9" too, nothing may be
\* left over, and the date must exist
strptime(val) ==
  LET lead == IF val # <<>> /\ val[1] = " " THEN 1 ELSE 0
      body == SubSeq(val, lead + 1, Len(val))
      f == SelectSeq(SplitOn(body, " "), LAMBDA x : x # <<>>)
      t == IF Len(f) = 5 THEN SplitOn(f[4], ":") ELSE <<>>
  IN  IF \/ body = <<>> \/ body[1] = " " \/ body[Len(body)] = " "
         \/ Len(f) # 5
         \/ ~TwoDigits(f[1], 1, 31)
         \/ lead = 1 /\ Len(f[1]) # 1
         \/ ~TwoDigits(f[2], 1, 12)
         \/ Len(f[3]) # 4 \/ \E i \in 1..Len(f[3]) : ~IsDigit(f[3][i])
         \/ Len(t) # 3
         \/ ~TwoDigits(t[1], 0, 23) \/ ~TwoDigits(t[2], 0, 59) \/ ~TwoDigits(t[3], 0, 61)
         \/ ~IsOffset(f[5])
      THEN ValueError
      ELSE LET year == IntOf(f[3])
               month == IntOf(f[2])
               day == IntOf(f[1])
           IN  IF year < 1 \/ day > DaysIn(year, month) \/ IntOf(t[3]) > 59
               THEN ValueError
               ELSE [exc |-> "none",
                     dt |-> <<year, month, day, IntOf(t[1]), IntOf(t[2]), IntOf(t[3]),
                              OffsetOf(f[5])>>]

parse_http_datetime(val) ==
  strptime(ReplaceAllOf(ReplaceMonth(SubSeq(val, 6, Len(val)), 1),
                        <<"G", "M", "T">>, <<"+", "0", "0", "0", "0">>))

\* the values parsed: a day name with its separator, a day, a month, a year,
\* a time of day or none, and a zone
DateParts ==
  [name : { <<"S", "u", "n", ",", " ">>, <<"X", "y", "z", ",", " ">>, <<"S", "u", "n", "d", "a", "y", ",", " ">>, <<"S", "u", "n", ",", " ", " ">>, <<"S", "u", "n", " ">> },
   day : { <<"0", "9">>, <<"9">>, <<"3", "1">>, <<"3", "2">> },
   month : { <<"M", "a", "y">>, <<"S", "e", "p">>, <<"F", "e", "b">>, <<"J", "a", "n", "u", "a", "r", "y">>, <<"m", "a", "y">>, <<"0", "5">>, <<"M", "a", "i">> },
   year : { <<"2", "0", "0", "4">>, <<"0", "0", "0", "0">> },
   time : { <<"0", "4", ":", "5", "3", ":", "4", "7">>, <<>> },
   zone : { <<"G", "M", "T">>, <<"+", "0", "1", "0", "0">>, <<"Z">> }]

Spaced(s) == IF s = <<>> THEN <<>> ELSE <<" ">> \o s

HeaderOf(p) ==
  p.name \o p.day \o Spaced(p.month) \o Spaced(p.year) \o Spaced(p.time) \o Spaced(p.zone)

InitDate ==
  /\ InitCrawlerVars
  /\ last = NoOp
  /\ db = EmptyDB
  /\ calls = 0
  /\ sup = NoSup
  /\ mn = NoMain
  /\ am = NoMap

\* a header value is parsed
ParseDate(p) ==
  /\ last = NoOp
  /\ last' = [op |-> "parse_http_datetime", val |-> HeaderOf(p), parts |-> p,
              ret |-> parse_http_datetime(HeaderOf(p))]
  /\ UNCHANGED storeVars

NextDate ==
  /\ \E p \in DateParts : ParseDate(p)
  /\ UNCHANGED <<crawlerVars, supVars, mainVars, mapVars>>

SpecDate == InitDate /\ [][NextDate]_vars

\* the month a name of three letters stands for, 0 for any other text
MonthOf(s) ==
  LET at == {i \in 1..Len(HTTP_LAST_MODIFIED) : HTTP_LAST_MODIFIED[i][1] = s}
  IN  IF at = {} THEN 0 ELSE CHOOSE i \in at : TRUE

\* 'Day, DD Mon YYYY HH:MM:SS GMT' of a date that exists
WellFormed(p) ==
  /\ p.name \in { <<"S", "u", "n", ",", " ">> }
  /\ Len(p.day) = 2 /\ \A i \in 1..2 : IsDigit(p.day[i])
  /\ MonthOf(p.month) # 0
  /\ Len(p.year) = 4 /\ \A i \in 1..4 : IsDigit(p.year[i])
  /\ IntOf(p.year) >= 1
  /\ IntOf(p.day) \in 1..DaysIn(IntOf(p.year), MonthOf(p.month))
  /\ p.time = <<"0", "4", ":", "5", "3", ":", "4", "7">>
  /\ p.zone = <<"G", "M", "T">>

\* a well-formed date is parsed as the UTC time it names
WellFormedParsed ==
  (last.op = "parse_http_datetime" /\ WellFormed(last.parts)) =>
    /\ last.ret.exc = "none"
    /\ last.ret.dt = <<IntOf(last.parts.year), MonthOf(last.parts.month),
                       IntOf(last.parts.day), 4, 53, 47, 0>>

\* C25: parse_http_datetime returns the UTC time of every well-formed
\* RFC-1123 date 'Day, DD Mon YYYY HH:MM:SS GMT' and raises ValueError for
\* every other input.
C25_OnlyRFC1123 ==
  last.op = "parse_http_datetime" =>
    /\ WellFormedParsed
    /\ ~WellFormed(last.parts) => last.ret.exc = "ValueError"

(***************************************************************************)
(* The page indexer (index/__init__.py): index_page on the plaintext and   *)
(* the title of a page.  A stream's occurrences are the sequence of        *)
(* [w, pos, frequency, tf] in the order of the first occurrence of each    *)
(* stem; tf is the fraction [num, den].                                    *)
(***************************************************************************)
MaxIndexPieces == 3

IndexPieces ==
  { <<"e", "a", "s", "e", " ">>, <<"h", "o", "p", " ">>, <<"a", "s", " ">>,
    <<"h", "o", "p", "s", " ">>, <<"!">> }

IndexTexts == {Concat(ps) : ps \in SeqsUpTo(IndexPieces, MaxIndexPieces)}

Titles ==
  { <<>>, <<"h", "o", "p">>, <<"a", "s">>,
    <<"e", "a", "s", "e", " ", "h", "o", "p", " ", "e", "a", "s", "e">> }

\* word_occurrences[word].append(pos) for the pairs of default_transform
Occurrences(pairs) ==
  LET stems == Dedup([i \in 1..Len(pairs) |-> pairs[i].word])
  IN  [k \in 1..Len(stems) |->
         LET mine == SelectSeq(pairs, LAMBDA p : p.word = stems[k])
         IN  [w |-> stems[k], pos |-> [i \in 1..Len(mine) |-> mine[i].pos]]]

\* amax(word_freqs, initial=0)
FreqMax(occ) ==
  IF occ = <<>> THEN 0 ELSE MaxOf({Len(occ[k].pos) : k \in 1..Len(occ)})

\* the stream with the frequencies divided by the largest frequency of both
\* streams
WordOccurrences_mut_sharedmax(occ, other) ==
  LET m == MaxOf({FreqMax(occ), FreqMax(other)})
  IN  [k \in 1..Len(occ) |->
         [w |-> occ[k].w, pos |-> occ[k].pos, frequency |-> Len(occ[k].pos),
          tf |-> IF m > 0 THEN [num |-> Len(occ[k].pos), den |-> m] ELSE TfZero]]

\* IndexedPage.WordOccurrences of a stream: word_freqs / word_freq_max, or
\* zeros for a stream without words; other is the other stream
WordOccurrences(occ, other) ==
  [k \in 1..Len(occ) |->
     [w |-> occ[k].w, pos |-> occ[k].pos, frequency |-> Len(occ[k].pos),
      tf |-> IF FreqMax(occ) > 0
             THEN [num |-> Len(occ[k].pos), den |-> FreqMax(occ)]
             ELSE TfZero]]

\* index_page: both streams are transformed once, then normalized
index_page(plaintext, title) ==
  CHOOSE page \in
    { [word_occurrences |->
         WordOccurrences(word_occurrences, word_occurrences_title),
       word_occurrences_title |->
         WordOccurrences(word_occurrences_title, word_occurrences)] :
        word_occurrences \in
          {Occurrences(pairs) : pairs \in {default_transform(plaintext)}},
        word_occurrences_title \in
          {Occurrences(pairs) : pairs \in {default_transform(title)}} } : TRUE

InitIndexer ==
  /\ InitCrawlerVars
  /\ last = NoOp
  /\ db = EmptyDB
  /\ calls = 0
  /\ sup = NoSup
  /\ mn = NoMain
  /\ am = NoMap

\* a page is indexed
IndexerIndexPage(plaintext, title) ==
  /\ last = NoOp
  /\ last' = [op |-> "index_page", plaintext |-> plaintext, title |-> title,
              ret |-> index_page(plaintext, title)]
  /\ UNCHANGED storeVars

NextIndexer ==
  /\ \E plaintext \in IndexTexts, title \in Titles :
       IndexerIndexPage(plaintext, title)
  /\ UNCHANGED <<crawlerVars, supVars, mainVars, mapVars>>

SpecIndexer == InitIndexer /\ [][NextIndexer]_vars

\* the occurrences of one stream are well-formed and normalized by the
\* stream's own largest frequency
StreamNormalized(stream) ==
  LET fmax == MaxOf({stream[k].frequency : k \in 1..Len(stream)})
  IN  /\ NoDup([k \in 1..Len(stream) |-> stream[k].w])
      /\ \A k \in 1..Len(stream) :
           /\ stream[k].pos # <<>>
           /\ StrictlyAscending(stream[k].pos)
           /\ stream[k].frequency = Len(stream[k].pos)
           /\ stream[k].tf.den > 0
           /\ stream[k].tf.num * fmax = stream[k].frequency * stream[k].tf.den
           /\ 0 < stream[k].tf.num /\ stream[k].tf.num <= stream[k].tf.den
      /\ stream # <<>> =>
           \E k \in 1..Len(stream) :
             stream[k].frequency = fmax /\ stream[k].tf.num = stream[k].tf.den

\* C33: in each of word_occurrences and word_occurrences_title every stem
\* has a non-empty strictly ascending positions list, a frequency equal to
\* its length and tf_normalized = frequency / the largest frequency of the
\* same stream, so that every tf is in (0, 1], the most frequent stem of a
\* stream has 1, and the other stream has no part in it.
C33_TfPerStream ==
  last.op = "index_page" =>
    /\ StreamNormalized(last.ret.word_occurrences)
    /\ StreamNormalized(last.ret.word_occurrences_title)

\* a page whose plaintext has a stem twice and another once, and whose title
\* has its largest frequency on another stem
C33_Witness ==
  /\ last.op = "index_page"
  /\ \E k \in 1..Len(last.ret.word_occurrences) :
       last.ret.word_occurrences[k].tf.num * 2 = last.ret.word_occurrences[k].tf.den
  /\ \E k \in 1..Len(last.ret.word_occurrences_title) :
       /\ last.ret.word_occurrences_title[k].frequency = 2
       /\ \A j \in 1..Len(last.ret.word_occurrences) :
            last.ret.word_occurrences[j].w = last.ret.word_occurrences_title[k].w
              => last.ret.word_occurrences[j].frequency = 1

=============================================================================
